---- MODULE Spec2Model ----
(***************************************************************************)
(* Model of the OpenID-Connect relying-party engine simple_openid_connect: *)
(* the ID-Token claim validator (data.py, IdToken.validate_extern) and the *)
(* Authorization Code Flow (flows/authorization_code_flow).                *)
(***************************************************************************)
EXTENDS Integers, Sequences, FiniteSets, TLC

(***************************************************************************)
(* Bounds and values                                                       *)
(***************************************************************************)

\* Posix timestamps range over 0..MaxTime.
MaxTime == 2

\* Python's None for optional string fields and optional int fields.
None == "None"
NoneInt == 0 - 1

Time == 0..MaxTime

\* The value time.time() returns while a token is validated on its own.
Now == MaxTime - 1

Range(s) == {s[i] : i \in 1..Len(s)}

(***************************************************************************)
(* IdToken.validate_extern  (data.py)                                      *)
(***************************************************************************)

ProviderIssuer == "https://provider.example.com"
WrongIssuer == "https://wrong.example.com"

\* aud: Union[str, List[str]].  A plain string is kept as a one-element
\* items sequence with isList = FALSE.
AudStr(a) == [isList |-> FALSE, items |-> <<a>>]
AudList(s) == [isList |-> TRUE, items |-> s]

AudValues ==
    {AudStr("a"), AudStr("b"), AudList(<<"a">>), AudList(<<"a", "b">>), AudList(<<"b">>)}

IdTokens ==
    [iss : {ProviderIssuer, WrongIssuer},
     aud : AudValues,
     azp : {None, "a", "b"},
     exp : Time,
     iat : Time,
     nonce : {None, "42", "0"},
     acr : {None, "1"},
     auth_time : {NoneInt} \cup Time]

\* The arguments of validate_extern.  validate_acr is None or a callback
\* that either returns ("accept") or raises ("reject").
Expectations ==
    [issuer : {ProviderIssuer},
     client_id : {"a"},
     nonce : {None, "42"},
     extra_trusted_audiences : {{}, {"b"}, {"a", "b"}},
     min_iat : {0, Now},
     validate_acr : {None, "accept", "reject"},
     min_auth_time : {0, Now}]

OK == "ok"
MsgIssuer == "ID-Token was issued from unexpected issuer"
MsgAudContains == "ID-Token's audience does not contain own client_id"
MsgAudTrusted == "Not all of the ID-Token's audience are trusted"
MsgAzpPresent == "ID-Token does not contain azp claim but is required to because it is issued to more than 1 audience"
MsgAzpValue == "The ID-Token was not issued to this client (azp claim mismatch)"
MsgExpired == "The ID-Token is expired"
MsgIat == "The ID-Token was issued too far in the past"
MsgNonce == "The ID-Token's nonce does not match its expected value"
MsgAcr == "validate_acr raised"
MsgAuthTime == "The session associated with this ID-Token was authenticated too far in the past"

CheckMsg(c) ==
    CASE c = "issuer" -> MsgIssuer
      [] c = "aud_contains" -> MsgAudContains
      [] c = "aud_trusted" -> MsgAudTrusted
      [] c = "azp_present" -> MsgAzpPresent
      [] c = "azp_value" -> MsgAzpValue
      [] c = "expiry" -> MsgExpired
      [] c = "iat" -> MsgIat
      [] c = "nonce" -> MsgNonce
      [] c = "acr" -> MsgAcr
      [] c = "auth_time" -> MsgAuthTime

\* The statements of validate_extern in program order.
CheckOrderSwapped ==
    <<"issuer", "aud_contains", "aud_trusted", "azp_present", "azp_value",
      "iat", "expiry", "nonce", "acr", "auth_time">>

CheckOrder ==
    <<"issuer", "aud_contains", "aud_trusted", "azp_present", "azp_value",
      "expiry", "iat", "nonce", "acr", "auth_time">>

\* self.iss == issuer
IssuerPassesAny(tok, e) == TRUE

IssuerPasses(tok, e) == tok.iss = e.issuer

\* self.aud == client_id  /  client_id in self.aud
AudContainsPasses(tok, e) == e.client_id \in Range(tok.aud.items)

\* all(i in extra_trusted_audiences for i in self.aud)
AudTrustedPasses(tok, e) ==
    \A i \in Range(tok.aud.items) : i \in e.extra_trusted_audiences

\* self.azp is not None
AzpPresentPasses(tok, e) == tok.azp # None

\* self.azp == client_id
AzpValuePassesAny(tok, e) == TRUE

AzpValuePasses(tok, e) == tok.azp = e.client_id

\* self.exp > time.time()
ExpiryPassesLeeway(tok, e, now) == tok.exp >= now

ExpiryPasses(tok, e, now) == tok.exp > now

\* self.iat >= min_iat
IatPassesStrict(tok, e) == tok.iat > e.min_iat

IatPasses(tok, e) == tok.iat >= e.min_iat

\* self.nonce == nonce
NoncePassesUnlessExpected(tok, e) == e.nonce = None \/ tok.nonce = e.nonce

NoncePasses(tok, e) == tok.nonce = e.nonce

\* validate_acr(self.acr) returns without raising
AcrPasses(tok, e) == e.validate_acr = "accept"

\* self.auth_time >= min_auth_time
AuthTimePassesStrict(tok, e) == tok.auth_time > e.min_auth_time

AuthTimePasses(tok, e) == tok.auth_time >= e.min_auth_time

\* The `if` around each check: whether the statement is executed at all.
CheckApplies(c, tok, e) ==
    CASE c = "aud_trusted" -> tok.aud.isList
      [] c = "azp_present" -> tok.aud.isList /\ Len(tok.aud.items) > 1
      [] c = "azp_value" -> tok.azp # None
      [] c = "nonce" -> tok.nonce # None
      [] c = "acr" -> tok.acr # None /\ e.validate_acr # None
      [] c = "auth_time" -> tok.auth_time # NoneInt
      [] OTHER -> TRUE

CheckPasses(c, tok, e, now) ==
    CASE c = "issuer" -> IssuerPasses(tok, e)
      [] c = "aud_contains" -> AudContainsPasses(tok, e)
      [] c = "aud_trusted" -> AudTrustedPasses(tok, e)
      [] c = "azp_present" -> AzpPresentPasses(tok, e)
      [] c = "azp_value" -> AzpValuePasses(tok, e)
      [] c = "expiry" -> ExpiryPasses(tok, e, now)
      [] c = "iat" -> IatPasses(tok, e)
      [] c = "nonce" -> NoncePasses(tok, e)
      [] c = "acr" -> AcrPasses(tok, e)
      [] c = "auth_time" -> AuthTimePasses(tok, e)

\* validate_that: raise ValidationError(msg) if the condition is false.
\* Runs the statements from position i on; `evaluated` lists the checks
\* whose condition was computed so far.
RECURSIVE RunChecks(_, _, _, _, _)
RunChecks(i, tok, e, now, evaluated) ==
    IF i > Len(CheckOrder)
    THEN [error |-> OK, evaluated |-> evaluated]
    ELSE LET c == CheckOrder[i] IN
         IF ~CheckApplies(c, tok, e)
         THEN RunChecks(i + 1, tok, e, now, evaluated)
         ELSE IF CheckPasses(c, tok, e, now)
              THEN RunChecks(i + 1, tok, e, now, Append(evaluated, c))
              ELSE [error |-> CheckMsg(c), evaluated |-> Append(evaluated, c)]

validate_extern(tok, e, now) == RunChecks(1, tok, e, now, <<>>)

(***************************************************************************)
(* Authorization Code Flow  (flows/authorization_code_flow)                *)
(***************************************************************************)

\* Number of handle_authentication_result calls a behaviour makes.
MaxCalls == 2

StateVals == {"0", "42"}
CodeVals == {"c1"}

\* Members of AuthenticationErrorResponse.ErrorType that occur in the model,
\* and a value outside of the enum.
ErrorTypes == {"access_denied"}
ErrorVals == ErrorTypes \cup {"bogus"}

TokenEndpoint == "https://provider.example.com/token"
CallbackUri == "https://app.example.com/callback"

\* The response parameters one location of a URL (query string or fragment)
\* carries; None marks an absent key.
Params ==
    [error : {None} \cup ErrorVals, code : {None} \cup CodeVals, state : {None} \cup StateVals]

NoParams == [error |-> None, code |-> None, state |-> None]

Urls == [base : {CallbackUri}, query : Params, fragment : Params]

\* The ID-Tokens the provider puts into token responses.
FlowIdTokens ==
    [iss : {ProviderIssuer, WrongIssuer},
     aud : {AudStr("a")},
     azp : {None},
     exp : Time,
     iat : Time,
     nonce : {None, "42", "0"},
     acr : {None},
     auth_time : {NoneInt}]

NoToken ==
    [iss |-> None, aud |-> AudStr(None), azp |-> None, exp |-> 0, iat |-> 0,
     nonce |-> None, acr |-> None, auth_time |-> NoneInt]

\* What the token endpoint answers: an HTTP status and a body that is a token
\* success document (carrying an ID-Token with a good or bad signature), a
\* token error document, or neither.
Bodies ==
    {[kind |-> "success", id_token |-> t, sig_ok |-> b] : t \in FlowIdTokens, b \in BOOLEAN}
    \cup {[kind |-> k, id_token |-> NoToken, sig_ok |-> FALSE] : k \in {"error", "malformed"}}

HttpResponses == [status : {200, 400}, body : Bodies]

\* requests.post raising instead of returning a response.
ConnectionFailed ==
    [status |-> NoneInt, body |-> [kind |-> "malformed", id_token |-> NoToken, sig_ok |-> FALSE]]

HttpOutcomes == HttpResponses \cup {ConnectionFailed}

\* ClientAuthenticationMethod.NAME of the two implemented methods.
NoneAuth == "none"
ClientSecretBasicAuth == "client_secret_basic"

\* OpenidClient: the provider's token_endpoint and the client's redirect URI,
\* each of which may be None, and the client authentication chosen at
\* construction (here: of a confidential client).
Clients ==
    [token_endpoint : {None, TokenEndpoint},
     authentication_redirect_uri : {None, CallbackUri},
     client_auth : {ClientSecretBasicAuth}]

\* AuthenticationErrorResponse: `error` is required and must be an ErrorType.
AuthenticationErrorResponseValid(p) == p.error \in ErrorTypes

\* AuthenticationSuccessResponse: `code` is required, `state` is optional.
AuthenticationSuccessResponseValid(p) == p.code # None

MsgValid(cls, p) ==
    IF cls = "AuthenticationErrorResponse"
    THEN AuthenticationErrorResponseValid(p)
    ELSE AuthenticationSuccessResponseValid(p)

\* OpenidBaseModel.parse_url: the message is decoded from the query string,
\* from the fragment, or ("auto") from the fragment with the query string as
\* fallback.  ok = FALSE stands for the pydantic validation error.
ParseLocation(cls, p) == [ok |-> MsgValid(cls, p), params |-> p]

parse_url_query_first(cls, url, location) ==
    IF location = "query" THEN ParseLocation(cls, url.query)
    ELSE IF location = "fragment" THEN ParseLocation(cls, url.fragment)
    ELSE IF MsgValid(cls, url.query)
         THEN ParseLocation(cls, url.query)
         ELSE ParseLocation(cls, url.fragment)

parse_url(cls, url, location) ==
    IF location = "query" THEN ParseLocation(cls, url.query)
    ELSE IF location = "fragment" THEN ParseLocation(cls, url.fragment)
    ELSE IF MsgValid(cls, url.fragment)
         THEN ParseLocation(cls, url.fragment)
         ELSE ParseLocation(cls, url.query)

\* "error" in current_furl.query.params.keys()
HasErrorParam(url) == url.query.error # None

\* copy.deepcopy(current_furl).remove(fragment=True, query=True)
StripUrl(url) == url.base

\* state != auth_response_msg.state  (negated)
StateMatchesOrAbsent(expected, msg) == msg.state = None \/ expected = msg.state

StateMatches(expected, msg) == expected = msg.state

NoMsg == [code |-> None, state |-> None]

NoHarResult == [kind |-> "none", id_token |-> NoToken, sig_ok |-> FALSE, error |-> None]

HarError(kind) == [NoHarResult EXCEPT !.kind = kind]

TokenResponseOfByBody(resp) ==
    IF resp.status = NoneInt
    THEN HarError("ConnectionError")
    ELSE IF resp.body.kind = "success"
    THEN [kind |-> "TokenSuccessResponse", id_token |-> resp.body.id_token,
          sig_ok |-> resp.body.sig_ok, error |-> None]
    ELSE IF resp.body.kind = "error"
    THEN [NoHarResult EXCEPT !.kind = "TokenErrorResponse", !.error = "invalid_grant"]
    ELSE HarError("PydanticValidationError")

\* exchange_code_for_tokens: status 200 is decoded as TokenSuccessResponse,
\* every other status as TokenErrorResponse; a body that does not validate
\* as that type raises the pydantic validation error, and a request that
\* got no response raises the HTTP library's error.
TokenResponseOf(resp) ==
    IF resp.status = NoneInt
    THEN HarError("ConnectionError")
    ELSE IF resp.status = 200
    THEN IF resp.body.kind = "success"
         THEN [kind |-> "TokenSuccessResponse", id_token |-> resp.body.id_token,
               sig_ok |-> resp.body.sig_ok, error |-> None]
         ELSE HarError("PydanticValidationError")
    ELSE IF resp.body.kind = "error"
         THEN [NoHarResult EXCEPT !.kind = "TokenErrorResponse", !.error = "invalid_grant"]
         ELSE HarError("PydanticValidationError")

VARIABLES
    client,          \* the OpenidClient the calls are made on
    calls,           \* number of handle_authentication_result calls started
    har_pc,          \* position inside handle_authentication_result
    har_args,        \* arguments of the running call
    har_redirect,    \* local variable redirect_uri
    har_msg,         \* local variable auth_response_msg
    har_result,      \* what the call returned or raised
    har_events,      \* the steps the running call has executed, in order
    response,        \* local variable response: what requests.post returned
    token_requests   \* every request sent to the token endpoint so far

har_vars ==
    <<client, calls, har_pc, har_args, har_redirect, har_msg, har_result,
      har_events, response, token_requests>>

NoResponse == [status |-> NoneInt, kind |-> "none"]

NoArgs ==
    [entry |-> "none", current_url |-> [base |-> CallbackUri, query |-> NoParams, fragment |-> NoParams],
     state |-> None, redirect_uri |-> None]

HarIdle ==
    /\ calls = 0
    /\ har_pc = "idle"
    /\ har_args = NoArgs
    /\ har_redirect = None
    /\ har_msg = NoMsg
    /\ har_result = NoHarResult
    /\ har_events = <<>>
    /\ response = NoResponse
    /\ token_requests = <<>>

CanCall == har_pc = "idle" /\ calls < MaxCalls

HarBegin(args, pc) ==
    /\ calls' = calls + 1
    /\ har_args' = args
    /\ har_pc' = pc
    /\ har_redirect' = args.redirect_uri
    /\ har_msg' = NoMsg
    /\ har_result' = NoHarResult
    /\ har_events' = <<>>
    /\ response' = NoResponse
    /\ UNCHANGED <<client, token_requests>>

\* A caller invokes AuthorizationCodeFlowClient.handle_authentication_result.
CallFacade ==
    /\ CanCall
    /\ \E url \in Urls, st \in {None} \cup StateVals :
        HarBegin([entry |-> "facade", current_url |-> url, state |-> st,
                  redirect_uri |-> None], "facade")

\* A caller invokes the module-level handle_authentication_result with a
\* token endpoint and a redirect_uri of its own ("auto" by default).
CallImpl ==
    /\ CanCall
    /\ \E url \in Urls, st \in {None} \cup StateVals, r \in {"auto", CallbackUri} :
        HarBegin([entry |-> "impl", current_url |-> url, state |-> st,
                  redirect_uri |-> r], "check_error")

\* self._base_client.provider_config.token_endpoint is None  (negated)
HasTokenEndpointAlways(c) == TRUE

HasTokenEndpoint(c) == c.token_endpoint # None

\* self._base_client.authentication_redirect_uri is None  (negated)
HasRedirectUriAlways(c) == TRUE

HasRedirectUri(c) == c.authentication_redirect_uri # None

HarReturn(result, ev) ==
    /\ har_result' = result
    /\ har_events' = Append(har_events, ev)
    /\ har_pc' = "returned"

\* AuthorizationCodeFlowClient.handle_authentication_result up to the call
\* of the module-level function.
FacadeCheck ==
    /\ har_pc = "facade"
    /\ IF ~HasTokenEndpoint(client)
       THEN /\ HarReturn(HarError("UnsupportedByProviderError"), "facade")
            /\ UNCHANGED har_redirect
       ELSE IF ~HasRedirectUri(client)
       THEN /\ HarReturn(HarError("ImpossibleOperationError"), "facade")
            /\ UNCHANGED har_redirect
       ELSE /\ har_redirect' = client.authentication_redirect_uri
            /\ har_events' = Append(har_events, "facade")
            /\ har_pc' = "check_error"
            /\ UNCHANGED har_result
    /\ UNCHANGED <<client, calls, har_args, har_msg, response, token_requests>>

\* if "error" in current_furl.query.params.keys(): raise AuthenticationFailedError(...)
HarCheckError ==
    /\ har_pc = "check_error"
    /\ IF HasErrorParam(har_args.current_url)
       THEN LET parsed == parse_url("AuthenticationErrorResponse", har_args.current_url, "auto")
            IN  IF parsed.ok
                THEN HarReturn([NoHarResult EXCEPT !.kind = "AuthenticationFailedError",
                                                   !.error = parsed.params.error],
                               "error_check")
                ELSE HarReturn(HarError("PydanticValidationError"), "error_check")
       ELSE /\ har_events' = Append(har_events, "error_check")
            /\ har_pc' = "parse"
            /\ UNCHANGED har_result
    /\ UNCHANGED <<client, calls, har_args, har_redirect, har_msg, response, token_requests>>

\* The redirect_uri reconstruction for "auto" and
\* AuthenticationSuccessResponse.parse_url(str(current_furl)).
HarParse ==
    /\ har_pc = "parse"
    /\ har_redirect' =
           IF har_redirect = "auto" THEN StripUrl(har_args.current_url) ELSE har_redirect
    /\ LET parsed == parse_url("AuthenticationSuccessResponse", har_args.current_url, "auto")
       IN  IF parsed.ok
           THEN /\ har_msg' = [code |-> parsed.params.code, state |-> parsed.params.state]
                /\ har_events' = Append(har_events, "parse")
                /\ har_pc' = "check_state"
                /\ UNCHANGED har_result
           ELSE /\ HarReturn(HarError("PydanticValidationError"), "parse")
                /\ UNCHANGED har_msg
    /\ UNCHANGED <<client, calls, har_args, response, token_requests>>

\* if state != auth_response_msg.state: raise ValidationError(...)
HarCheckState ==
    /\ har_pc = "check_state"
    /\ IF StateMatches(har_args.state, har_msg)
       THEN /\ har_events' = Append(har_events, "state_check")
            /\ har_pc' = "exchange"
            /\ UNCHANGED har_result
       ELSE HarReturn(HarError("ValidationError"), "state_check")
    /\ UNCHANGED <<client, calls, har_args, har_redirect, har_msg, response, token_requests>>

\* exchange_code_for_tokens: one POST of the TokenRequest to the token
\* endpoint, the answer mapped by its HTTP status.
HarExchange ==
    /\ har_pc = "exchange"
    /\ \E resp \in HttpOutcomes :
        /\ token_requests' = Append(token_requests,
               [grant_type |-> "authorization_code", code |-> har_msg.code,
                redirect_uri |-> har_redirect, auth |-> client.client_auth])
        /\ response' = [status |-> resp.status, kind |-> resp.body.kind]
        /\ HarReturn(TokenResponseOf(resp), "token_request")
    /\ UNCHANGED <<client, calls, har_args, har_redirect, har_msg>>

\* The call is over: its result went to the caller and its frame is gone.
\* The engine keeps nothing but the requests that reached the provider.
ReturnToCaller ==
    /\ har_pc = "returned"
    /\ har_pc' = "idle"
    /\ har_args' = NoArgs
    /\ har_redirect' = None
    /\ har_msg' = NoMsg
    /\ har_result' = NoHarResult
    /\ har_events' = <<>>
    /\ response' = NoResponse
    /\ UNCHANGED <<client, calls, token_requests>>

HarStep == FacadeCheck \/ HarCheckError \/ HarParse \/ HarCheckState \/ HarExchange

(***************************************************************************)
(* Django integration: InitLoginView and LoginCallbackView                 *)
(* (integrations/django/views.py)                                          *)
(***************************************************************************)

\* OPENID_LOGIN_TIMEOUT in units of the model's clock.
OPENID_LOGIN_TIMEOUT == 1

NonceVals == {"42", "0"}

\* request.get_full_path(): a request reaching the server carries no fragment.
RequestUrls == {u \in Urls : u.fragment = NoParams}

VARIABLES
    now,             \* the wall clock
    session,         \* the Django session of the user agent
    view_pc,         \* position inside LoginCallbackView.get
    view_url,        \* the URL of the callback request being handled
    view_token,      \* token_response / id_token held by the running request
    view_checked,    \* what extract_id validated the ID-Token against
    view_response,   \* the response of the last finished callback request
    openid_sessions  \* the rows of the OpenidSession table, in the order of their ids

view_vars == <<now, session, view_pc, view_url, view_token, view_checked, view_response, openid_sessions>>

NoSession ==
    [openid_auth_state |-> None, openid_auth_nonce |-> None,
     openid_auth_start_time |-> NoneInt, user |-> None, openid_session |-> NoneInt]

NoChecked == [done |-> FALSE, nonce |-> None, min_iat |-> NoneInt, at |-> NoneInt, error |-> "none"]

NoUrl == [base |-> CallbackUri, query |-> NoParams, fragment |-> NoParams]

ViewIdle ==
    /\ now = 0
    /\ session = NoSession
    /\ view_pc = "idle"
    /\ view_url = NoUrl
    /\ view_token = NoHarResult
    /\ view_checked = NoChecked
    /\ view_response = "none"
    /\ openid_sessions = <<>>

\* The arguments extract_id hands to validate_extern.
ViewExpectNoMinIat(sess) ==
    [issuer |-> ProviderIssuer, client_id |-> "a", nonce |-> sess.openid_auth_nonce,
     extra_trusted_audiences |-> {}, min_iat |-> 0,
     validate_acr |-> None, min_auth_time |-> 0]

ViewExpect(sess) ==
    [issuer |-> ProviderIssuer, client_id |-> "a", nonce |-> sess.openid_auth_nonce,
     extra_trusted_audiences |-> {}, min_iat |-> sess.openid_auth_start_time,
     validate_acr |-> None, min_auth_time |-> 0]

Tick ==
    /\ now < MaxTime
    /\ now' = now + 1
    /\ UNCHANGED <<session, view_pc, view_url, view_token, view_checked, view_response, openid_sessions>>

\* InitLoginView.get: log out (which empties the session), store a fresh
\* state, start time and nonce.
InitLoginView_get ==
    /\ view_pc = "idle"
    /\ \E st \in StateVals, n \in NonceVals :
        session' = [openid_auth_state |-> st, openid_auth_nonce |-> n,
                    openid_auth_start_time |-> now, user |-> None,
                    openid_session |-> NoneInt]
    /\ UNCHANGED <<now, view_pc, view_url, view_token, view_checked, view_response, openid_sessions>>

\* A request arrives at LoginCallbackView.
CallbackRequest ==
    /\ view_pc = "idle"
    /\ calls < MaxCalls
    /\ \E url \in RequestUrls : view_url' = url
    /\ view_pc' = "check_auth_state"
    /\ view_token' = NoHarResult
    /\ view_checked' = NoChecked
    /\ view_response' = "none"
    /\ UNCHANGED <<now, session, openid_sessions>>

ViewRespond(r) ==
    /\ view_response' = r
    /\ view_pc' = "idle"

\* request.session.get("openid_auth_state", None) is not None
LoginStartedAlways(sess) == TRUE

LoginStarted(sess) == sess.openid_auth_state # None

\* LoginCallbackView.check_auth_state
check_auth_state ==
    /\ view_pc = "check_auth_state"
    /\ IF ~LoginStarted(session)
       THEN ViewRespond("401 Invalid state")
       ELSE view_pc' = "check_login_timeout" /\ UNCHANGED view_response
    /\ UNCHANGED <<now, session, view_url, view_token, view_checked, openid_sessions>>

\* no start time is stored, or the login was started more than
\* OPENID_LOGIN_TIMEOUT ago
LoginTimedOutNever(sess, t) == FALSE

LoginTimedOut(sess, t) ==
    \/ sess.openid_auth_start_time = NoneInt
    \/ t - sess.openid_auth_start_time > OPENID_LOGIN_TIMEOUT

\* LoginCallbackView.check_login_timeout
check_login_timeout ==
    /\ view_pc = "check_login_timeout"
    /\ IF LoginTimedOut(session, now)
       THEN ViewRespond("401 login process took too long")
       ELSE view_pc' = "exchange_code_for_token" /\ UNCHANGED view_response
    /\ UNCHANGED <<now, session, view_url, view_token, view_checked, openid_sessions>>

\* the state argument of the call: request.session["openid_auth_state"]
StateArgumentNone(sess) == None

StateArgument(sess) == sess.openid_auth_state

\* LoginCallbackView.exchange_code_for_token: the call of
\* client.authorization_code_flow.handle_authentication_result ...
exchange_code_for_token_call ==
    /\ view_pc = "exchange_code_for_token"
    /\ CanCall
    /\ HarBegin([entry |-> "view", current_url |-> view_url,
                 state |-> StateArgument(session), redirect_uri |-> None], "facade")
    /\ view_pc' = "await_token_response"
    /\ UNCHANGED <<now, session, view_url, view_token, view_checked, view_response, openid_sessions>>

\* ... and what the view does with its outcome.  Only
\* AuthenticationFailedError is caught; any other exception leaves the view.
exchange_code_for_token_result ==
    /\ view_pc = "await_token_response"
    /\ har_pc = "returned"
    /\ ReturnToCaller
    /\ IF har_result.kind = "TokenSuccessResponse"
       THEN /\ view_token' = har_result
            /\ view_pc' = "extract_id"
            /\ UNCHANGED view_response
       ELSE /\ ViewRespond(
                 IF har_result.kind = "AuthenticationFailedError"
                 THEN "401 The Identity-Provider ran into an error"
                 ELSE IF har_result.kind = "TokenErrorResponse"
                 THEN "401 token error"
                 ELSE "500 unhandled exception")
            /\ UNCHANGED view_token
    /\ UNCHANGED <<now, session, view_url, view_checked, openid_sessions>>

\* LoginCallbackView.extract_id: IdToken.parse_jwt, then validate_extern with
\* the session's nonce and start time.
extract_id ==
    /\ view_pc = "extract_id"
    /\ IF ~view_token.sig_ok
       THEN /\ ViewRespond("500 unhandled exception")
            /\ UNCHANGED view_checked
       ELSE LET e == ViewExpect(session)
                r == validate_extern(view_token.id_token, e, now)
            IN  /\ view_checked' = [done |-> TRUE, nonce |-> e.nonce, min_iat |-> e.min_iat,
                                    at |-> now, error |-> r.error]
                /\ IF r.error = OK
                   THEN view_pc' = "perform_login" /\ UNCHANGED view_response
                   ELSE ViewRespond("401 Invalid ID-Token")
    /\ UNCHANGED <<now, session, view_url, view_token, openid_sessions>>

\* del request.session[...] of the three variables of the login process
LoginVariablesKept(sess) == sess

LoginVariablesDeleted(sess) ==
    [sess EXCEPT !.openid_auth_state = None, !.openid_auth_nonce = None,
                 !.openid_auth_start_time = NoneInt]

\* LoginCallbackView.perform_login, the cleanup of the session variables and
\* the redirect.  update_session gives the OpenidSession of the login (the
\* ID-Tokens of the flow carry no sid: a new row), its id is stored in the
\* session, and login() makes the mapped user the session's user.
perform_login ==
    /\ view_pc = "perform_login"
    /\ openid_sessions' = Append(openid_sessions, [user |-> "sub", sid |-> ""])
    /\ session' = [LoginVariablesDeleted(session) EXCEPT
                       !.user = "sub", !.openid_session = Len(openid_sessions')]
    /\ ViewRespond("302 redirect")
    /\ UNCHANGED <<now, view_url, view_token, view_checked>>

ViewStep ==
    \/ check_auth_state
    \/ check_login_timeout
    \/ extract_id
    \/ perform_login

(***************************************************************************)
(* OpenidClient: construction (client.py) and the operations of the facade *)
(* besides handle_authentication_result                                    *)
(***************************************************************************)

\* token_endpoint_auth_methods_supported of the provider metadata.
AuthMethodSets == {{ClientSecretBasicAuth}, {"client_secret_post"}}

SecretVals == {None, "secret"}

VARIABLES
    construction     \* the arguments OpenidClient.__init__ got and how it ended

NoClient ==
    [token_endpoint |-> None, authentication_redirect_uri |-> None, client_auth |-> None]

NotConstructed == [outcome |-> "none", client_secret |-> None, auth_methods |-> {}]

\* The construction of the clients in Clients.
ConstructedConfidential ==
    [outcome |-> "constructed", client_secret |-> "secret",
     auth_methods |-> {ClientSecretBasicAuth}]

Constructed == construction.outcome = "constructed"

\* The if/else of OpenidClient.__init__ that assigns self.client_auth.
SelectClientAuthFallback(client_secret, methods) ==
    IF client_secret = None THEN NoneAuth
    ELSE IF ClientSecretBasicAuth \in methods THEN ClientSecretBasicAuth
    ELSE NoneAuth

SelectClientAuth(client_secret, methods) ==
    IF client_secret = None THEN NoneAuth
    ELSE IF ClientSecretBasicAuth \in methods THEN ClientSecretBasicAuth
    ELSE "NotImplementedError"

\* OpenidClient.__init__
OpenidClient_init ==
    /\ construction.outcome = "none"
    /\ \E te \in {None, TokenEndpoint}, ru \in {None, CallbackUri},
          client_secret \in SecretVals, methods \in AuthMethodSets :
        LET auth == SelectClientAuth(client_secret, methods)
        IN  /\ construction' =
                   [outcome |-> IF auth = "NotImplementedError" THEN auth ELSE "constructed",
                    client_secret |-> client_secret, auth_methods |-> methods]
            /\ client' =
                   IF auth = "NotImplementedError"
                   THEN client
                   ELSE [token_endpoint |-> te, authentication_redirect_uri |-> ru,
                         client_auth |-> auth]
    /\ UNCHANGED <<calls, har_pc, har_args, har_redirect, har_msg, har_result,
                   har_events, response, token_requests>>

\* The three grants whose facade method only checks the token endpoint.
TokenGrants == {"exchange_refresh_token", "direct_access_grant", "client_credentials_grant"}

GrantType(op) ==
    CASE op = "exchange_refresh_token" -> "refresh_token"
      [] op = "direct_access_grant" -> "password"
      [] op = "client_credentials_grant" -> "client_credentials"

\* A caller invokes one of the facade's operations.  The facade's
\* exchange_code_for_tokens takes the AuthenticationSuccessResponse as its
\* argument.
CallOperation ==
    /\ CanCall
    /\ Constructed
    /\ \E op \in TokenGrants \cup {"start_authentication", "exchange_code_for_tokens"},
          c \in CodeVals :
        /\ har_args' = [NoArgs EXCEPT !.entry = op]
        /\ har_msg' = IF op = "exchange_code_for_tokens"
                      THEN [code |-> c, state |-> None] ELSE NoMsg
    /\ calls' = calls + 1
    /\ har_pc' = "operation"
    /\ har_redirect' = None
    /\ har_result' = NoHarResult
    /\ har_events' = <<>>
    /\ response' = NoResponse
    /\ UNCHANGED <<client, token_requests, construction>>

\* AuthorizationCodeFlowClient.start_authentication: no request is sent, the
\* URL for the user agent is returned.
start_authentication ==
    /\ har_pc = "operation"
    /\ har_args.entry = "start_authentication"
    /\ IF ~HasRedirectUri(client)
       THEN HarReturn(HarError("ImpossibleOperationError"), "facade")
       ELSE HarReturn([NoHarResult EXCEPT !.kind = "url"], "facade")
    /\ UNCHANGED <<client, calls, har_args, har_redirect, har_msg, response,
                   token_requests, construction>>

\* AuthorizationCodeFlowClient.exchange_code_for_tokens up to the call of
\* the module-level function (HarExchange).
exchange_code_for_tokens ==
    /\ har_pc = "operation"
    /\ har_args.entry = "exchange_code_for_tokens"
    /\ IF ~HasTokenEndpoint(client)
       THEN /\ HarReturn(HarError("UnsupportedByProviderError"), "facade")
            /\ UNCHANGED har_redirect
       ELSE IF ~HasRedirectUri(client)
       THEN /\ HarReturn(HarError("ImpossibleOperationError"), "facade")
            /\ UNCHANGED har_redirect
       ELSE /\ har_redirect' = client.authentication_redirect_uri
            /\ har_events' = Append(har_events, "facade")
            /\ har_pc' = "exchange"
            /\ UNCHANGED har_result
    /\ UNCHANGED <<client, calls, har_args, har_msg, response, token_requests, construction>>

\* OpenidClient.exchange_refresh_token, DirectAccessGrantClient.authenticate
\* and ClientCredentialsGrantClient.authenticate up to the call of the
\* module-level function.
GrantFacade ==
    /\ har_pc = "operation"
    /\ har_args.entry \in TokenGrants
    /\ IF ~HasTokenEndpoint(client)
       THEN HarReturn(HarError("UnsupportedByProviderError"), "facade")
       ELSE /\ har_events' = Append(har_events, "facade")
            /\ har_pc' = "grant_post"
            /\ UNCHANGED har_result
    /\ UNCHANGED <<client, calls, har_args, har_redirect, har_msg, response,
                   token_requests, construction>>

\* token_refresh.exchange_refresh_token, direct_access_grant.authenticate and
\* client_credentials_grant.authenticate: one POST of the TokenRequest with
\* auth=client_authentication, the answer mapped by its HTTP status.
GrantPost ==
    /\ har_pc = "grant_post"
    /\ \E resp \in HttpOutcomes :
        /\ token_requests' = Append(token_requests,
               [grant_type |-> GrantType(har_args.entry), code |-> None,
                redirect_uri |-> None, auth |-> client.client_auth])
        /\ response' = [status |-> resp.status, kind |-> resp.body.kind]
        /\ HarReturn(TokenResponseOf(resp), "token_request")
    /\ UNCHANGED <<client, calls, har_args, har_redirect, har_msg, construction>>

OperationStep == start_authentication \/ exchange_code_for_tokens \/ GrantFacade \/ GrantPost

(***************************************************************************)
(* Two login attempts in flight on the same client object: every call of   *)
(* start_authentication and handle_authentication_result has a frame of    *)
(* its own, the client object is shared.                                   *)
(***************************************************************************)
Attempts == {1, 2}

OtherAttempt(t) == CHOOSE u \in Attempts : u # t

\* The state value the caller of attempt t generated for it.
AttemptState(t) == IF t = 1 THEN "0" ELSE "42"

\* The token endpoint's answers to the two attempts.
ConcIdToken ==
    [iss |-> ProviderIssuer, aud |-> AudStr("a"), azp |-> None, exp |-> MaxTime,
     iat |-> 0, nonce |-> None, acr |-> None, auth_time |-> NoneInt]

ConcResponses ==
    {r \in HttpOutcomes : r.body.kind = "success" => (r.body.id_token = ConcIdToken /\ r.body.sig_ok)}

VARIABLES
    frames           \* per attempt: the running call's arguments and locals

NoFrame ==
    [pc |-> "idle", auth_url_state |-> None,
     args |-> [current_url |-> NoUrl, state |-> None],
     redirect |-> None, msg |-> NoMsg, result |-> NoHarResult, events |-> <<>>,
     resp |-> ConnectionFailed]

FramesIdle == frames = [t \in Attempts |-> NoFrame]

FrameReturn(f, result, ev) ==
    [f EXCEPT !.pc = "returned", !.result = result, !.events = Append(f.events, ev)]

FrameGoto(f, pc, ev) == [f EXCEPT !.pc = pc, !.events = Append(f.events, ev)]

\* The state a call compares the callback's state with: its own argument.
ExpectedStateShared(fs, t) ==
    IF fs[OtherAttempt(t)].pc \in {"idle", "started"}
    THEN fs[t].args.state
    ELSE fs[OtherAttempt(t)].args.state

ExpectedState(fs, t) == fs[t].args.state

\* One step of handle_authentication_result (facade, then module-level
\* function) on the frame f of a call, for the client c; resp is what the
\* token endpoint answers if this step is the POST.
HarFrameStep(f, expected, c, resp) ==
    CASE f.pc = "facade" ->
            IF ~HasTokenEndpoint(c)
            THEN FrameReturn(f, HarError("UnsupportedByProviderError"), "facade")
            ELSE IF ~HasRedirectUri(c)
            THEN FrameReturn(f, HarError("ImpossibleOperationError"), "facade")
            ELSE [FrameGoto(f, "check_error", "facade")
                     EXCEPT !.redirect = c.authentication_redirect_uri]
      [] f.pc = "check_error" ->
            IF HasErrorParam(f.args.current_url)
            THEN LET parsed == parse_url("AuthenticationErrorResponse", f.args.current_url, "auto")
                 IN  IF parsed.ok
                     THEN FrameReturn(f, [NoHarResult EXCEPT !.kind = "AuthenticationFailedError",
                                                             !.error = parsed.params.error],
                                      "error_check")
                     ELSE FrameReturn(f, HarError("PydanticValidationError"), "error_check")
            ELSE FrameGoto(f, "parse", "error_check")
      [] f.pc = "parse" ->
            LET parsed == parse_url("AuthenticationSuccessResponse", f.args.current_url, "auto")
            IN  IF parsed.ok
                THEN [FrameGoto(f, "check_state", "parse")
                         EXCEPT !.msg = [code |-> parsed.params.code,
                                         state |-> parsed.params.state]]
                ELSE FrameReturn(f, HarError("PydanticValidationError"), "parse")
      [] f.pc = "check_state" ->
            IF StateMatches(expected, f.msg)
            THEN FrameGoto(f, "exchange", "state_check")
            ELSE FrameReturn(f, HarError("ValidationError"), "state_check")
      [] f.pc = "exchange" ->
            [FrameReturn(f, TokenResponseOf(resp), "token_request") EXCEPT !.resp = resp]
      [] OTHER -> f

\* Attempt t calls start_authentication with its state: the URL for the user
\* agent is returned, nothing is stored.
ThreadStart(t) ==
    /\ frames[t].pc = "idle"
    /\ frames' = [frames EXCEPT ![t] =
           IF ~HasRedirectUri(client)
           THEN FrameReturn(@, HarError("ImpossibleOperationError"), "start")
           ELSE [FrameGoto(@, "started", "start") EXCEPT !.auth_url_state = AttemptState(t)]]
    /\ UNCHANGED <<client, token_requests>>

\* A callback request arrives and its handler calls
\* handle_authentication_result with the request's URL and the state it
\* holds for one of the attempts.
ThreadCall(t) ==
    /\ frames[t].pc = "started"
    /\ \E url \in RequestUrls, st \in StateVals :
        frames' = [frames EXCEPT ![t] =
            [@ EXCEPT !.pc = "facade", !.args = [current_url |-> url, state |-> st]]]
    /\ UNCHANGED <<client, token_requests>>

\* The call of attempt t executes its next statement.
ThreadStep(t) ==
    /\ frames[t].pc \in {"facade", "check_error", "parse", "check_state"}
    /\ frames' = [frames EXCEPT ![t] =
           HarFrameStep(@, ExpectedState(frames, t), client, ConnectionFailed)]
    /\ UNCHANGED <<client, token_requests>>

\* The call of attempt t sends its token request and gets the answer.
ThreadExchange(t) ==
    /\ frames[t].pc = "exchange"
    /\ \E resp \in ConcResponses :
        frames' = [frames EXCEPT ![t] = HarFrameStep(@, ExpectedState(frames, t), client, resp)]
    /\ token_requests' = Append(token_requests,
           [grant_type |-> "authorization_code", code |-> frames[t].msg.code,
            redirect_uri |-> frames[t].redirect, auth |-> client.client_auth])
    /\ UNCHANGED client

(***************************************************************************)
(* OpenidAppConfig.get_client (integrations/django/apps.py): requests that *)
(* run concurrently get the client from the process-wide cache or create   *)
(* it.                                                                     *)
(***************************************************************************)

\* Number of requests that call get_client.
MaxRequests == 3

Requests == 1..MaxRequests

\* {scheme}://{host} of the requests.
Hosts == {"https://app.example.com", "https://other.example.com"}

\* The Django settings OPENID_BASE_URI and OPENID_REDIRECT_URI.
Settings ==
    [OPENID_BASE_URI : {None, "https://app.example.com"},
     OPENID_REDIRECT_URI : {None, "/callback"}]

\* f"{own_base_uri}{relative_redirect_uri}"
RedirectUriOf(base) ==
    IF base = "https://app.example.com" THEN CallbackUri
    ELSE "https://other.example.com/callback"

VARIABLES
    settings,        \* the Django settings of the process
    cache,           \* cache entry "openid_client" (NoClient: no entry)
    get_client_pc,   \* per request: position inside get_client
    own_base_uri,    \* per request: argument own_base_uri
    local_client,    \* per request: local variable client
    discovered       \* per request: whether it ran from_issuer_url

cache_vars == <<settings, cache, get_client_pc, own_base_uri, local_client, discovered>>

CacheIdle ==
    /\ settings = [OPENID_BASE_URI |-> None, OPENID_REDIRECT_URI |-> "/callback"]
    /\ cache = NoClient
    /\ get_client_pc = [r \in Requests |-> "idle"]
    /\ own_base_uri = [r \in Requests |-> None]
    /\ local_client = [r \in Requests |-> NoClient]
    /\ discovered = [r \in Requests |-> FALSE]

\* A request calls get_client(request).
get_client_call(r) ==
    /\ get_client_pc[r] = "idle"
    /\ \E h \in Hosts : own_base_uri' = [own_base_uri EXCEPT ![r] = h]
    /\ get_client_pc' = [get_client_pc EXCEPT ![r] = "cache_get"]
    /\ UNCHANGED <<settings, cache, local_client, discovered>>

\* client = cache.get("openid_client"); return client if there is one.
get_client_cache_get(r) ==
    /\ get_client_pc[r] = "cache_get"
    /\ local_client' = [local_client EXCEPT ![r] = cache]
    /\ get_client_pc' = [get_client_pc EXCEPT ![r] =
           IF cache = NoClient THEN "construct" ELSE "returned"]
    /\ UNCHANGED <<settings, cache, own_base_uri, discovered>>

\* The redirect_uri get_client computes for a request.
RedirectUriFor(st, base) ==
    IF st.OPENID_REDIRECT_URI = None THEN None
    ELSE IF st.OPENID_BASE_URI # None THEN RedirectUriOf(st.OPENID_BASE_URI)
    ELSE RedirectUriOf(base)

\* client = OpenidClient.from_issuer_url(...): discovery, then construction.
get_client_construct(r) ==
    /\ get_client_pc[r] = "construct"
    /\ local_client' = [local_client EXCEPT ![r] =
           [token_endpoint |-> TokenEndpoint,
            authentication_redirect_uri |-> RedirectUriFor(settings, own_base_uri[r]),
            client_auth |-> ClientSecretBasicAuth]]
    /\ discovered' = [discovered EXCEPT ![r] = TRUE]
    /\ get_client_pc' = [get_client_pc EXCEPT ![r] = "cache_set"]
    /\ UNCHANGED <<settings, cache, own_base_uri>>

\* cache.set("openid_client", client); return client
get_client_cache_set(r) ==
    /\ get_client_pc[r] = "cache_set"
    /\ cache' = local_client[r]
    /\ get_client_pc' = [get_client_pc EXCEPT ![r] = "returned"]
    /\ UNCHANGED <<settings, own_base_uri, local_client, discovered>>

get_client(r) ==
    \/ get_client_call(r)
    \/ get_client_cache_get(r)
    \/ get_client_construct(r)
    \/ get_client_cache_set(r)

(***************************************************************************)
(* Message codec (base_data.py): OpenidBaseModel.encode_x_www_form_url-    *)
(* encoded, encode_url, parse_x_www_form_urlencoded and parse_url, with    *)
(* the furl Query and the pydantic model they are built on.                *)
(*                                                                         *)
(* A string is a sequence of characters, a field value is tagged with its  *)
(* python type, and the wire format is a sequence of units: a key, the     *)
(* separators "&" and "=", a plain character or one escape such as "%26".  *)
(***************************************************************************)
NoneValue == [t |-> "none", v |-> <<>>]

StrValue(s) == [t |-> "str", v |-> s]

ListValue(l) == [t |-> "list", v |-> l]

\* the default of DummyMessage.optional_with_default ("default value")
DefaultValue == <<"d", " ", "v">>

Strs == {<<>>, <<"a">>, <<"a", " ", "&">>, <<"=", "+">>, DefaultValue}

StrValues == {StrValue(s) : s \in Strs}

PromptLists == {<<>>, <<<<"l">>>>, <<<<"l">>, <<"c">>>>}

\* a field of a model class: its name, the type of a non-None value,
\* whether None is allowed, whether a value must be given, and its default
Field(name, type, optional, required, default) ==
    [name |-> name, type |-> type, optional |-> optional, required |-> required,
     default |-> default]

MessageClasses ==
    {"DummyMessage", "AuthenticationRequest", "TokenRequest", "RpInitiatedLogoutRequest"}

FieldsOf(cls) ==
    CASE cls = "DummyMessage" ->
            << Field("required_field", "str", FALSE, TRUE, NoneValue),
               Field("optional_field", "str", TRUE, FALSE, NoneValue),
               Field("optional_with_default", "str", TRUE, FALSE, StrValue(DefaultValue)) >>
      [] cls = "AuthenticationRequest" ->
            << Field("scope", "str", FALSE, TRUE, NoneValue),
               Field("response_type", "str", FALSE, TRUE, NoneValue),
               Field("client_id", "str", FALSE, TRUE, NoneValue),
               Field("redirect_uri", "str", FALSE, TRUE, NoneValue),
               Field("state", "str", TRUE, FALSE, NoneValue),
               Field("nonce", "str", TRUE, FALSE, NoneValue),
               Field("prompt", "list", TRUE, FALSE, NoneValue) >>
      [] cls = "TokenRequest" ->
            << Field("grant_type", "str", FALSE, TRUE, NoneValue),
               Field("code", "str", TRUE, FALSE, NoneValue),
               Field("redirect_uri", "str", TRUE, FALSE, NoneValue),
               Field("client_id", "str", TRUE, FALSE, NoneValue),
               Field("refresh_token", "str", TRUE, FALSE, NoneValue),
               Field("username", "str", TRUE, FALSE, NoneValue),
               Field("password", "str", TRUE, FALSE, NoneValue),
               Field("scope", "str", TRUE, FALSE, NoneValue) >>
      [] cls = "RpInitiatedLogoutRequest" ->
            << Field("id_token_hint", "str", TRUE, FALSE, NoneValue),
               Field("logout_hint", "str", TRUE, FALSE, NoneValue),
               Field("client_id", "str", TRUE, FALSE, NoneValue),
               Field("post_logout_redirect_uri", "str", TRUE, FALSE, NoneValue),
               Field("state", "str", TRUE, FALSE, NoneValue),
               Field("ui_locales", "list", TRUE, FALSE, NoneValue) >>

FieldNames(cls) == {FieldsOf(cls)[i].name : i \in DOMAIN FieldsOf(cls)}

\* pydantic's validation of one value against one field
FieldAccepts(fld, val) ==
    \/ val.t = "none" /\ fld.optional
    \/ val.t = fld.type

\* Config.extra: Extra.allow keeps the keys that are not fields
ExtraAllowed(cls) == cls \in {"AuthenticationRequest", "TokenRequest"}

GrantTypeValue(g) == StrValue(<<g>>)

\* TokenRequest._validate_required_based_on_grant_type
RequiredForGrantWithClientCredentials(g) ==
    CASE g = GrantTypeValue("authorization_code") -> {"code", "redirect_uri"}
      [] g = GrantTypeValue("refresh_token") -> {"refresh_token"}
      [] g = GrantTypeValue("password") -> {"username", "password", "scope"}
      [] g = GrantTypeValue("client_credentials") -> {"scope"}
      [] OTHER -> {}

RequiredForGrant(g) ==
    CASE g = GrantTypeValue("authorization_code") -> {"code", "redirect_uri"}
      [] g = GrantTypeValue("refresh_token") -> {"refresh_token"}
      [] g = GrantTypeValue("password") -> {"username", "password", "scope"}
      [] OTHER -> {}

root_validator(cls, fields) ==
    cls = "TokenRequest" =>
        \A n \in RequiredForGrant(fields["grant_type"]) : fields[n] # NoneValue

\* __init__ / parse_obj: the values given, defaults for the others; ok is
\* FALSE where pydantic raises its ValidationError
NoMessage == [ok |-> FALSE, cls |-> "none", fields |-> <<>>]

parse_obj(cls, given) ==
    LET flds == FieldsOf(cls)
        names == FieldNames(cls)
        kept == IF ExtraAllowed(cls) THEN names \cup DOMAIN given ELSE names
        fieldOf(n) == flds[CHOOSE i \in DOMAIN flds : flds[i].name = n]
        values == [n \in kept |->
                    IF n \in DOMAIN given THEN given[n] ELSE fieldOf(n).default]
        valid == \A i \in DOMAIN flds :
                    /\ flds[i].required => flds[i].name \in DOMAIN given
                    /\ flds[i].name \in DOMAIN given
                            => FieldAccepts(flds[i], given[flds[i].name])
    IN  IF valid /\ root_validator(cls, values)
        THEN [ok |-> TRUE, cls |-> cls, fields |-> values]
        ELSE NoMessage

\* self.dict(exclude_defaults=True): the items of the fields in their
\* order, without the fields that hold their default, then the items of
\* the extra attributes, which have no default and are never left out
RECURSIVE dict_items(_, _, _)
dict_items(flds, fields, exclude_defaults) ==
    IF flds = <<>> THEN <<>>
    ELSE LET f == Head(flds)
             rest == dict_items(Tail(flds), fields, exclude_defaults)
         IN  IF exclude_defaults /\ ~f.required /\ f.default = fields[f.name]
             THEN rest
             ELSE <<[key |-> f.name, value |-> fields[f.name]]>> \o rest

ExtraOrder == <<"code_verifier", "code_challenge", "code_challenge_method", "tenant">>

extra_items(m) ==
    LET present == SelectSeq(ExtraOrder,
                             LAMBDA n : n \in DOMAIN m.fields \ FieldNames(m.cls))
    IN  [i \in DOMAIN present |-> [key |-> present[i], value |-> m.fields[present[i]]]]

dict_all(m) == dict_items(FieldsOf(m.cls), m.fields, FALSE) \o extra_items(m)

dict_exclude_defaults(m) == dict_items(FieldsOf(m.cls), m.fields, TRUE) \o extra_items(m)

\* furl's omdict1D.updateall: a list value is taken as several values of
\* the key, any other value as one
RECURSIVE ListItems(_, _)
ListItems(key, l) ==
    IF l = <<>> THEN <<>>
    ELSE <<[key |-> key, value |-> StrValue(Head(l))]>> \o ListItems(key, Tail(l))

RECURSIVE updateall(_)
updateall(items) ==
    IF items = <<>> THEN <<>>
    ELSE LET it == Head(items)
         IN  (IF it.value.t = "list" THEN ListItems(it.key, it.value.v) ELSE <<it>>)
             \o updateall(Tail(items))

\* quote_plus and unquote_plus on one character / one unit
quote_plus_char(c) ==
    CASE c = " " -> "+"
      [] c = "+" -> "%2B"
      [] c = "&" -> "%26"
      [] c = "=" -> "%3D"
      [] OTHER -> c

unquote_plus_verbatim(u) == u

unquote_plus_unit(u) ==
    CASE u = "+" -> " "
      [] u = "%2B" -> "+"
      [] u = "%26" -> "&"
      [] u = "%3D" -> "="
      [] OTHER -> u

MapSeq(Op(_), s) == [i \in DOMAIN s |-> Op(s[i])]

\* Query.encode: "key" for a None value, "key=value" otherwise, joined by "&"
EncodeItem(it) ==
    IF it.value.t = "none" THEN <<it.key>>
    ELSE <<it.key, "=">> \o MapSeq(quote_plus_char, it.value.v)

RECURSIVE Query_encode(_)
Query_encode(items) ==
    IF items = <<>> THEN <<>>
    ELSE IF Tail(items) = <<>> THEN EncodeItem(Head(items))
    ELSE EncodeItem(Head(items)) \o <<"&">> \o Query_encode(Tail(items))

\* Query(string): split at "&", each part at its first "="; a part without
\* "=" has the value None
RECURSIVE SplitOn(_, _)
SplitOn(s, sep) ==
    IF s = <<>> THEN << <<>> >>
    ELSE LET rest == SplitOn(Tail(s), sep)
         IN  IF Head(s) = sep THEN << <<>> >> \o rest
             ELSE << <<Head(s)>> \o Head(rest) >> \o Tail(rest)

DecodeItem(part) ==
    IF Len(part) >= 2 /\ part[2] = "="
    THEN [key |-> part[1],
          value |-> StrValue(MapSeq(unquote_plus_unit, SubSeq(part, 3, Len(part))))]
    ELSE [key |-> part[1], value |-> NoneValue]

RECURSIVE DecodeParts(_)
DecodeParts(parts) ==
    IF parts = <<>> THEN <<>>
    ELSE IF Head(parts) = <<>> THEN DecodeParts(Tail(parts))
    ELSE <<DecodeItem(Head(parts))>> \o DecodeParts(Tail(parts))

Query_parse(s) == DecodeParts(SplitOn(s, "&"))

\* query.params[key]: the first value of the key
FirstValue(items, key) ==
    items[CHOOSE i \in DOMAIN items :
            items[i].key = key /\ \A j \in 1..(i - 1) : items[j].key # key].value

one_value_params(items) ==
    [k \in {items[i].key : i \in DOMAIN items} |-> FirstValue(items, k)]

encode_x_www_form_urlencoded(m) == Query_encode(updateall(dict_exclude_defaults(m)))

parse_x_www_form_urlencoded(cls, s) == parse_obj(cls, one_value_params(Query_parse(s)))

\* furl(url): the query items and the fragment of a URL; the scheme, host
\* and path play no part in the codec
ForeignArg == [key |-> "tenant", value |-> StrValue(<<"a">>)]

BaseUrls == {[args |-> <<>>, fragment |-> <<>>], [args |-> <<ForeignArg>>, fragment |-> <<>>]}

\* furl.args.update(items): the url's own arguments stay unless a new item
\* has their key
args_update(args, items) ==
    SelectSeq(args, LAMBDA a : \A i \in DOMAIN items : items[i].key # a.key) \o items

encode_url(m, url) ==
    [query |-> Query_encode(args_update(url.args, updateall(dict_exclude_defaults(m)))),
     fragment |-> url.fragment]

\* parse_url: "auto" tries the fragment and, when that raises, the query
OpenidBaseModel_parse_url(cls, url, location) ==
    CASE location = "query" -> parse_x_www_form_urlencoded(cls, url.query)
      [] location = "fragment" -> parse_x_www_form_urlencoded(cls, url.fragment)
      [] OTHER ->
            IF parse_x_www_form_urlencoded(cls, url.fragment).ok
            THEN parse_x_www_form_urlencoded(cls, url.fragment)
            ELSE parse_x_www_form_urlencoded(cls, url.query)

\* the keyword arguments the messages are constructed from
StrOf(c) == StrValue(<<c>>)

OptionalStr(c) == {NoneValue, StrOf(c)}

DummyMessageArgs ==
    {[required_field |-> a, optional_field |-> b, optional_with_default |-> c] :
        a \in StrValues \cup {NoneValue}, b \in StrValues \cup {NoneValue},
        c \in StrValues \cup {NoneValue}}

\* the arguments start_authentication constructs its AuthenticationRequest from
AuthenticationRequestArgs ==
    {[scope |-> StrOf("openid"), response_type |-> StrOf("code"), client_id |-> StrOf("client"),
      redirect_uri |-> StrOf("callback"), state |-> st, nonce |-> no, prompt |-> pr,
      code_challenge |-> cc, code_challenge_method |-> cm] :
        st \in {NoneValue, StrValue(<<>>), StrOf("a")}, no \in OptionalStr("n"),
        pr \in {NoneValue} \cup {ListValue(l) : l \in PromptLists},
        cc \in OptionalStr("challenge"), cm \in OptionalStr("S256")}

GrantTypes == {"authorization_code", "refresh_token", "password", "client_credentials"}

\* the arguments exchange_code_for_tokens constructs its TokenRequest from,
\* and those of a caller that constructs a TokenRequest of any grant type
TokenRequestArgs ==
    {[grant_type |-> GrantTypeValue("authorization_code"), code |-> StrOf("c1"),
      redirect_uri |-> StrOf("callback"), client_id |-> StrOf("client"),
      refresh_token |-> NoneValue, username |-> NoneValue, password |-> NoneValue,
      scope |-> NoneValue, code_verifier |-> cv, code_challenge |-> cc,
      code_challenge_method |-> cm] :
        cv \in OptionalStr("verifier"), cc \in OptionalStr("challenge"),
        cm \in OptionalStr("S256")}
    \cup
    {[grant_type |-> GrantTypeValue(g), code |-> co, redirect_uri |-> ru,
      client_id |-> NoneValue, refresh_token |-> rt, username |-> us, password |-> pw,
      scope |-> sc, code_verifier |-> NoneValue, code_challenge |-> NoneValue,
      code_challenge_method |-> NoneValue] :
        g \in GrantTypes, co \in OptionalStr("c1"), ru \in OptionalStr("callback"),
        rt \in OptionalStr("r1"), us \in OptionalStr("u"), pw \in OptionalStr("p"),
        sc \in OptionalStr("openid")}

RpInitiatedLogoutRequestArgs ==
    {[id_token_hint |-> i, state |-> s] : i \in {NoneValue, StrValue(<<>>), StrOf("a")},
                                          s \in {NoneValue, StrValue(<<>>), StrOf("a")}}

ArgsOf(cls) ==
    CASE cls = "DummyMessage" -> DummyMessageArgs
      [] cls = "AuthenticationRequest" -> AuthenticationRequestArgs
      [] cls = "TokenRequest" -> TokenRequestArgs
      [] cls = "RpInitiatedLogoutRequest" -> RpInitiatedLogoutRequestArgs

\* what the other part of a URL holds while a message is in one part:
\* nothing, a parameter that is no field, or another message of the class
OtherArgs(cls) ==
    CASE cls = "DummyMessage" ->
            [required_field |-> StrOf("o"), optional_field |-> NoneValue,
             optional_with_default |-> StrValue(DefaultValue)]
      [] cls = "AuthenticationRequest" ->
            [scope |-> StrOf("o"), response_type |-> StrOf("code"), client_id |-> StrOf("client"),
             redirect_uri |-> StrOf("callback")]
      [] cls = "TokenRequest" ->
            [grant_type |-> GrantTypeValue("client_credentials"), scope |-> StrOf("o")]
      [] cls = "RpInitiatedLogoutRequest" ->
            [id_token_hint |-> StrOf("o"), state |-> StrOf("o")]

OtherParts(cls) ==
    {<<>>, Query_encode(<<ForeignArg>>),
     encode_x_www_form_urlencoded(parse_obj(cls, OtherArgs(cls)))}

VARIABLES
    codec_pc,       \* "start", "constructed", "failed", "encoded", "parsed"
    codec_cls,      \* the message class
    codec_args,     \* the keyword arguments of the constructor
    codec_msg,      \* the constructed message
    codec_base,     \* the url handed to encode_url
    codec_where,    \* the part of the URL the message is put in for "auto"
    codec_other,    \* what the other part of that URL holds
    codec_form,     \* result of encode_x_www_form_urlencoded
    codec_url,      \* result of encode_url
    codec_parsed    \* results of the three decodings

codec_vars ==
    <<codec_pc, codec_cls, codec_args, codec_msg, codec_base, codec_where, codec_other,
      codec_form, codec_url, codec_parsed>>

NoUrlParts == [query |-> <<>>, fragment |-> <<>>]

NoParsed == [form |-> NoMessage, url |-> NoMessage, auto |-> NoMessage]

CodecIdle ==
    /\ codec_pc = "idle"
    /\ codec_cls = "DummyMessage"
    /\ codec_args = OtherArgs("DummyMessage")
    /\ codec_msg = NoMessage
    /\ codec_base = [args |-> <<>>, fragment |-> <<>>]
    /\ codec_where = "query"
    /\ codec_other = <<>>
    /\ codec_form = <<>>
    /\ codec_url = NoUrlParts
    /\ codec_parsed = NoParsed

\* the URL of the test of "auto": the message in one part, codec_other in the other
AutoUrl ==
    [query |-> IF codec_where = "query" THEN codec_form ELSE codec_other,
     fragment |-> IF codec_where = "fragment" THEN codec_form ELSE codec_other]

Construct ==
    /\ codec_pc = "start"
    /\ codec_msg' = parse_obj(codec_cls, codec_args)
    /\ codec_pc' = IF codec_msg'.ok THEN "constructed" ELSE "failed"
    /\ UNCHANGED <<codec_cls, codec_args, codec_base, codec_where, codec_other, codec_form,
                   codec_url, codec_parsed>>

Encode ==
    /\ codec_pc = "constructed"
    /\ codec_form' = encode_x_www_form_urlencoded(codec_msg)
    /\ codec_url' = encode_url(codec_msg, codec_base)
    /\ codec_pc' = "encoded"
    /\ UNCHANGED <<codec_cls, codec_args, codec_msg, codec_base, codec_where, codec_other,
                   codec_parsed>>

Parse ==
    /\ codec_pc = "encoded"
    /\ codec_parsed' =
            [form |-> parse_x_www_form_urlencoded(codec_cls, codec_form),
             url |-> OpenidBaseModel_parse_url(codec_cls, codec_url, "query"),
             auto |-> OpenidBaseModel_parse_url(codec_cls, AutoUrl, "auto")]
    /\ codec_pc' = "parsed"
    /\ UNCHANGED <<codec_cls, codec_args, codec_msg, codec_base, codec_where, codec_other,
                   codec_form, codec_url>>


(***************************************************************************)
(* BackChannelLogoutToken.validate_extern (data.py): the checks in the     *)
(* order of the code; the first that fails raises ValidationError with its *)
(* message, a callback that rejects raises its own error.                  *)
(***************************************************************************)
LogoutTokens ==
    [iss : {ProviderIssuer, WrongIssuer}, sub : {None, "u1"}, aud : {"a", "b"},
     iat : Time, jti : {"j1"}, sid : {None, "s1"}]

\* a validate_* argument: not given, a callable that returns, one that raises
Callbacks == {None, "returns", "raises"}

LogoutExpectations ==
    [issuer : {ProviderIssuer}, client_id : {"a"}, min_iat : Time,
     validate_unique_jti : Callbacks, validate_iss_has_sessions : Callbacks,
     validate_sub_has_sessions : Callbacks, validate_sid_exists : Callbacks]

MsgLogoutIssuer == "Logout-Token was issued from unexpected issuer"
MsgLogoutAud == "Logout-Token's audience does not contain own client_id"
MsgLogoutIat == "The Logout-Token was issued too far in the past"
MsgLogoutSubSid == "Neither sub nor sid claim is present in Backchannel-Logout-Token"

SubOrSidPresentAlways(tok) == TRUE

SubOrSidPresent(tok) == ~(tok.sub = None /\ tok.sid = None)

BackChannelLogoutToken_validate_extern(tok, e) ==
    CASE tok.iss # e.issuer -> MsgLogoutIssuer
      [] tok.iss = e.issuer /\ tok.aud # e.client_id -> MsgLogoutAud
      [] tok.iss = e.issuer /\ tok.aud = e.client_id /\ ~(tok.iat >= e.min_iat) -> MsgLogoutIat
      [] tok.iss = e.issuer /\ tok.aud = e.client_id /\ tok.iat >= e.min_iat
            /\ ~SubOrSidPresent(tok) -> MsgLogoutSubSid
      [] OTHER ->
            IF e.validate_unique_jti = "raises" THEN "validate_unique_jti raised"
            ELSE IF e.validate_iss_has_sessions = "raises"
            THEN "validate_iss_has_sessions raised"
            ELSE IF e.validate_sub_has_sessions = "raises" /\ tok.sub # None
            THEN "validate_sub_has_sessions raised"
            ELSE IF e.validate_sid_exists = "raises" /\ tok.sid # None
            THEN "validate_sid_exists raised"
            ELSE OK

\* the validate_* arguments in the order in which the code calls them
HookOrder ==
    <<"validate_unique_jti", "validate_iss_has_sessions",
      "validate_sub_has_sessions", "validate_sid_exists">>

\* the condition under which a hook is called: it was given, and the claim
\* it is handed is present
HookAppliesWhenGiven(h, tok, e) == e[h] # None

HookApplies(h, tok, e) ==
    /\ e[h] # None
    /\ h = "validate_sub_has_sessions" => tok.sub # None
    /\ h = "validate_sid_exists" => tok.sid # None

\* the built-in checks of validate_extern all pass
BuiltinChecksPass(tok, e) ==
    /\ tok.iss = e.issuer
    /\ tok.aud = e.client_id
    /\ tok.iat >= e.min_iat
    /\ SubOrSidPresent(tok)

\* the hooks called from the i-th on, in order; one that raises is the last
RECURSIVE HooksFrom(_, _, _)
HooksFrom(i, tok, e) ==
    IF i > Len(HookOrder) THEN <<>>
    ELSE LET h == HookOrder[i] IN
         IF ~HookApplies(h, tok, e) THEN HooksFrom(i + 1, tok, e)
         ELSE IF e[h] = "raises" THEN <<h>>
         ELSE <<h>> \o HooksFrom(i + 1, tok, e)

\* the hooks one call of validate_extern invokes
HooksInvoked(tok, e) ==
    IF BuiltinChecksPass(tok, e) THEN HooksFrom(1, tok, e) ELSE <<>>

VARIABLES
    lt_pc,          \* "start" before the call, "done" after it
    lt_token,       \* the logout token
    lt_expect,      \* the arguments of validate_extern
    lt_result,      \* OK or the message of the error raised
    lt_hooks        \* the hooks the call invoked, in order

lt_vars == <<lt_pc, lt_token, lt_expect, lt_result, lt_hooks>>

LogoutTokenIdle ==
    /\ lt_pc = "idle"
    /\ lt_token = [iss |-> ProviderIssuer, sub |-> "u1", aud |-> "a", iat |-> 0,
                   jti |-> "j1", sid |-> "s1"]
    /\ lt_expect = [issuer |-> ProviderIssuer, client_id |-> "a", min_iat |-> 0,
                    validate_unique_jti |-> None, validate_iss_has_sessions |-> None,
                    validate_sub_has_sessions |-> None, validate_sid_exists |-> None]
    /\ lt_result = "none"
    /\ lt_hooks = <<>>

ValidateLogoutToken ==
    /\ lt_pc = "start"
    /\ lt_result' = BackChannelLogoutToken_validate_extern(lt_token, lt_expect)
    /\ lt_hooks' = HooksInvoked(lt_token, lt_expect)
    /\ lt_pc' = "done"
    /\ UNCHANGED <<lt_token, lt_expect>>

(***************************************************************************)
(* The redirect URI of the facade (flows/authorization_code_flow/client.py)*)
(* start_authentication sends furl(authentication_redirect_uri).tostr();   *)
(* handle_authentication_result sends the same with additional_redirect_   *)
(* args added to a furl object of its own.  start_authentication has no    *)
(* additional_redirect_args parameter: a call that passes one raises       *)
(* TypeError before anything is sent.                                      *)
(***************************************************************************)
MaxRedirectCalls == 3

RedirectArgs == {None, "foo=bar", "next=home"}

\* furl(uri), args.update(additional_redirect_args), tostr()
RedirectUriWith(uri, args) ==
    IF args = None THEN uri ELSE [base |-> uri.base, args |-> uri.args \cup {args}]

\* the keyword arguments the signature of start_authentication has room for
StartAuthenticationAccepts(args) == args = None

VARIABLES
    authentication_redirect_uri,    \* the attribute of the OpenidClient
    redirect_log                    \* the requests sent, one entry per call

rd_vars == <<authentication_redirect_uri, redirect_log>>

PlainRedirectUri == [base |-> CallbackUri, args |-> {}]

RedirectIdle ==
    /\ authentication_redirect_uri = PlainRedirectUri
    /\ redirect_log = <<>>

\* AuthorizationCodeFlowClient.start_authentication
facade_start_authentication(args) ==
    /\ Len(redirect_log) < MaxRedirectCalls
    /\ redirect_log' = Append(redirect_log,
            IF StartAuthenticationAccepts(args)
            THEN [op |-> "start_authentication", args |-> args, error |-> "none",
                  redirect_uri |-> RedirectUriWith(authentication_redirect_uri, None)]
            ELSE [op |-> "start_authentication", args |-> args, error |-> "TypeError",
                  redirect_uri |-> None])
    /\ UNCHANGED authentication_redirect_uri

\* AuthorizationCodeFlowClient.handle_authentication_result on the URL of a
\* successful response: the redirect_uri of the token request it sends
facade_handle_authentication_result(args) ==
    /\ Len(redirect_log) < MaxRedirectCalls
    /\ redirect_log' = Append(redirect_log,
            [op |-> "handle_authentication_result", args |-> args, error |-> "none",
             redirect_uri |-> RedirectUriWith(authentication_redirect_uri, args)])
    /\ UNCHANGED authentication_redirect_uri

(***************************************************************************)
(* discover_configuration_from_issuer (discovery.py): one GET of the       *)
(* provider configuration, the check of its content type, and the parsing  *)
(* and issuer check of the document.                                       *)
(***************************************************************************)
Issuers == {ProviderIssuer, "https://provider.example.com/"}

\* the Content-Type header: None when the response has none
ContentTypes == {None, "application/json", "application/json; charset=utf-8", "text/plain"}

\* the body: no JSON, JSON that is no provider configuration, or a provider
\* configuration with its issuer
DiscoveryBodies ==
    {[json |-> FALSE, valid |-> FALSE, issuer |-> None],
     [json |-> TRUE, valid |-> FALSE, issuer |-> None]}
    \cup {[json |-> TRUE, valid |-> TRUE, issuer |-> i] : i \in Issuers \cup {WrongIssuer}}

\* what requests.get does: return a response, or raise ConnectionError
Unreachable == [reached |-> FALSE, status |-> NoneInt, content_type |-> None,
                body |-> [json |-> FALSE, valid |-> FALSE, issuer |-> None]]

DiscoveryOutcomes ==
    {Unreachable}
    \cup [reached : {TRUE}, status : {200, 404}, content_type : ContentTypes,
          body : DiscoveryBodies]

\* utils.is_application_json: the main type, whatever the options
is_application_json(content_type) ==
    content_type \in {"application/json", "application/json; charset=utf-8"}

VARIABLES
    disc_pc,        \* "start", "check_content_type", "parse", "done"
    disc_issuer,    \* the argument
    disc_response,  \* what the provider answers
    disc_result     \* the ProviderMetadata returned or the error raised

disc_vars == <<disc_pc, disc_issuer, disc_response, disc_result>>

NoDiscoveryResult == [kind |-> "none", issuer |-> None]

DiscoveryIdle ==
    /\ disc_pc = "idle"
    /\ disc_issuer = ProviderIssuer
    /\ disc_response = Unreachable
    /\ disc_result = NoDiscoveryResult

DiscoveryRaise(kind) ==
    /\ disc_result' = [kind |-> kind, issuer |-> None]
    /\ disc_pc' = "done"

\* response = requests.get(config_url)
discover_get ==
    /\ disc_pc = "start"
    /\ IF disc_response.reached
       THEN disc_pc' = "check_content_type" /\ UNCHANGED disc_result
       ELSE DiscoveryRaise("ConnectionError")
    /\ UNCHANGED <<disc_issuer, disc_response>>

\* if not utils.is_application_json(response.headers["Content-Type"]): raise
discover_check_content_type ==
    /\ disc_pc = "check_content_type"
    /\ IF disc_response.content_type = None
       THEN DiscoveryRaise("KeyError")
       ELSE IF ~is_application_json(disc_response.content_type)
       THEN DiscoveryRaise("OpenidProtocolError")
       ELSE disc_pc' = "parse" /\ UNCHANGED disc_result
    /\ UNCHANGED <<disc_issuer, disc_response>>

\* ProviderMetadata.parse_raw and the issuer assertion, any exception of
\* which is raised as OpenidProtocolError
discover_parse ==
    /\ disc_pc = "parse"
    /\ IF /\ disc_response.body.json
          /\ disc_response.body.valid
          /\ disc_response.body.issuer = disc_issuer
       THEN /\ disc_result' = [kind |-> "ProviderMetadata", issuer |-> disc_response.body.issuer]
            /\ disc_pc' = "done"
       ELSE DiscoveryRaise("OpenidProtocolError")
    /\ UNCHANGED <<disc_issuer, disc_response>>

(***************************************************************************)
(* PKCE (pkce.py): generate_code_verifier, generate_pkce_pair and          *)
(* get_code_challenge.  A string is a sequence of characters; the SHA-256  *)
(* digest and its base64 form are kept symbolic, as terms over their       *)
(* input.                                                                  *)
(***************************************************************************)
MinLength == 43

MaxLength == 128

TokenBytes == 96

\* the lengths a caller may pass: around both ends of the interval, zero
\* and a negative one
Lengths == {0 - 1, 0} \cup ((MinLength - 2)..(MaxLength + 2))

\* the state of the random source: what the next call of secrets reads
Seeds == {1, 2, 3}

NextSeed(seed) == (seed % 3) + 1

UrlsafeAlphabet == <<"A", "b", "7", "-", "_">>

\* secrets.token_urlsafe(nbytes): the unpadded base64 text of nbytes random
\* bytes, four characters for every three bytes
token_urlsafe(nbytes, seed) ==
    [i \in 1..((nbytes * 4 + 2) \div 3) |-> UrlsafeAlphabet[((i * seed) % 5) + 1]]

\* the slice s[:n]
SliceTo(s, n) ==
    IF n >= 0 THEN SubSeq(s, 1, IF n < Len(s) THEN n ELSE Len(s))
    ELSE SubSeq(s, 1, IF Len(s) + n > 0 THEN Len(s) + n ELSE 0)

LengthAllowedAny(length) == TRUE

\* 43 <= length <= 128
LengthAllowed(length) == MinLength <= length /\ length <= MaxLength

ValueError == [error |-> "ValueError"]

generate_code_verifier(length, seed) ==
    IF ~LengthAllowed(length) THEN ValueError
    ELSE SliceTo(token_urlsafe(TokenBytes, seed), length)

\* sha256, urlsafe_b64encode and the removal of the padding character
get_code_challenge(code_verifier) ==
    IF ~LengthAllowed(Len(code_verifier)) THEN ValueError
    ELSE [b64 |-> [sha256 |-> code_verifier], padding |-> FALSE]

\* the challenge of a verifier drawn anew instead of the one returned
ChallengeOfFreshVerifier(code_verifier, seed) ==
    get_code_challenge(SliceTo(token_urlsafe(TokenBytes, NextSeed(seed)), Len(code_verifier)))

ChallengeOf(code_verifier, seed) == get_code_challenge(code_verifier)

generate_pkce_pair(code_verifier_length, seed) ==
    IF ~LengthAllowed(code_verifier_length) THEN ValueError
    ELSE LET code_verifier == generate_code_verifier(code_verifier_length, seed)
         IN  [code_verifier |-> code_verifier,
              code_challenge |-> ChallengeOf(code_verifier, seed)]

VARIABLES
    pkce_pc,        \* "start", "generated", "recomputed"
    pkce_op,        \* the function called
    pkce_length,    \* its argument
    pkce_seed,      \* the state of the random source
    pkce_result,    \* the verifier, the pair, or ValueError
    pkce_again      \* get_code_challenge of the returned verifier, later

pkce_vars == <<pkce_pc, pkce_op, pkce_length, pkce_seed, pkce_result, pkce_again>>

NoPkceResult == [error |-> "none"]

PkceIdle ==
    /\ pkce_pc = "idle"
    /\ pkce_op = "generate_pkce_pair"
    /\ pkce_length = MaxLength
    /\ pkce_seed = 1
    /\ pkce_result = NoPkceResult
    /\ pkce_again = NoPkceResult

\* one call of generate_code_verifier or generate_pkce_pair; the call
\* consumes randomness if it gets as far as drawing
Generate ==
    /\ pkce_pc = "start"
    /\ pkce_result' = IF pkce_op = "generate_code_verifier"
                      THEN generate_code_verifier(pkce_length, pkce_seed)
                      ELSE generate_pkce_pair(pkce_length, pkce_seed)
    /\ pkce_seed' = IF LengthAllowed(pkce_length) THEN NextSeed(pkce_seed) ELSE pkce_seed
    /\ pkce_pc' = "generated"
    /\ UNCHANGED <<pkce_op, pkce_length, pkce_again>>

\* a later call of get_code_challenge on the verifier that was returned
Recompute ==
    /\ pkce_pc = "generated"
    /\ pkce_result # ValueError
    /\ pkce_again' = IF pkce_op = "generate_code_verifier"
                     THEN get_code_challenge(pkce_result)
                     ELSE get_code_challenge(pkce_result.code_verifier)
    /\ pkce_pc' = "recomputed"
    /\ UNCHANGED <<pkce_op, pkce_length, pkce_seed, pkce_result>>

(***************************************************************************)
(* Access tokens presented to a resource server                            *)
(* (integrations/django/decorators.py, integrations/django/user_mapping.py)*)
(*                                                                         *)
(* A scope string is a sequence of characters; str.split(" ") is SplitOn.  *)
(***************************************************************************)
\* an absent optional string, among strings that are sequences
NoneStr == <<"None">>

\* scope strings: "", "a", "b", "a b", "b a" and "a  b" (two spaces)
ScopeStrs ==
    { <<>>, <<"a">>, <<"b">>, <<"a", " ", "b">>, <<"b", " ", "a">>,
      <<"a", " ", " ", "b">> }

\* the required_scopes argument: None selects settings.OPENID_SCOPE
RequiredScopes == {NoneStr, <<>>, <<"a">>, <<"a", " ", "b">>}

\* safe_settings.OPENID_SCOPE: one scope, as the default "openid" is
OPENID_SCOPE == <<"a">>

\* the Authorization header as a sequence of its parts: absent, another
\* scheme, the bare word, and a bearer token
AuthorizationHeaders ==
    {NoneStr, <<"Basic", " ", "dXNlcg">>, <<"Bearer">>, <<"Bearer", " ", "tok">>}

AcceptHeaders == {None, "application/json", "text/plain"}

\* headers["Authorization"].startswith("Bearer ")
startswith_Bearer(h) == Len(h) >= 2 /\ h[1] = "Bearer" /\ h[2] = " "

\* what OpenidClient.introspect_token gives: the provider has no
\* introspection endpoint, an error response, or a success response
Subs == {None, "u1"}

IntrospectionResponses ==
    {[kind |-> "UnsupportedByProviderError"], [kind |-> "TokenIntrospectionErrorResponse"]}
    \cup [kind : {"TokenIntrospectionSuccessResponse"}, active : BOOLEAN,
          scope : ScopeStrs \cup {NoneStr}, sub : Subs]

\* what JwtAccessToken.parse_jwt followed by validate_extern gives: the raw
\* token is no JWT, the JWT fails validation, or a valid token with its claims
JwtOutcomes ==
    {[kind |-> "not_a_jwt"], [kind |-> "invalid"]}
    \cup [kind : {"JwtAccessToken"}, scope : ScopeStrs \cup {NoneStr}, sub : Subs]

\* x in s.split(" ")
InSplit(x, s) == \E i \in 1..Len(SplitOn(s, " ")) : SplitOn(s, " ")[i] = x

\* any(scope not in granted.split(" ") for scope in required.split(" "))
AnyScopeMissingNever(required, granted) == FALSE

AnyScopeMissing(required, granted) ==
    \E i \in 1..Len(SplitOn(required, " ")) : ~InSplit(SplitOn(required, " ")[i], granted)

\* _invalid_token_response(request)
invalid_token_response(request) ==
    IF request.accept # None /\ is_application_json(request.accept)
    THEN [status |-> 401, www_authenticate |-> "Bearer", content |-> "json",
          view_executed |-> FALSE, user |-> None]
    ELSE [status |-> 401, www_authenticate |-> "Bearer", content |-> "text",
          view_executed |-> FALSE, user |-> None]

RsResponse(status) ==
    [status |-> status, www_authenticate |-> IF status = 401 THEN "Bearer" ELSE None,
     content |-> "", view_executed |-> FALSE, user |-> None]

\* the decorated view ran; request.user is the user of the introspected sub
ViewExecuted(sub) ==
    [status |-> 200, www_authenticate |-> None, content |-> "view",
     view_executed |-> TRUE, user |-> sub]

RsRaise(kind) ==
    [status |-> 0, www_authenticate |-> None, content |-> kind,
     view_executed |-> FALSE, user |-> None]

\* required_scopes, or settings.OPENID_SCOPE when None was given
required_scopes_or_default(required_scopes) ==
    IF required_scopes = NoneStr THEN OPENID_SCOPE ELSE required_scopes

\* wrapped_view after the header check, given the introspection response
wrapped_view_introspected(request, required, r) ==
    IF r.kind = "UnsupportedByProviderError" THEN RsRaise("UnsupportedByProviderError")
    ELSE IF r.kind = "TokenIntrospectionErrorResponse" THEN RsResponse(500)
    ELSE IF ~r.active THEN invalid_token_response(request)
    ELSE IF r.scope = NoneStr THEN RsResponse(500)
    ELSE IF AnyScopeMissing(required, r.scope) THEN invalid_token_response(request)
    ELSE ViewExecuted(r.sub)

\* UserMapper.handle_federated_userinfo: a user for the sub, or no sub
handle_federated_userinfo(user_data, path) ==
    IF user_data.sub = None
    THEN [accepted |-> FALSE, error |-> "ValidationError", path |-> path, user |-> None]
    ELSE [accepted |-> TRUE, error |-> None, path |-> path, user |-> user_data.sub]

MapperRaise(kind, path) == [accepted |-> FALSE, error |-> kind, path |-> path, user |-> None]

\* the try block of handle_federated_access_token: TRUE when it ends
\* without an exception
JwtPathSucceeds(jwt, required) ==
    /\ jwt.kind = "JwtAccessToken"
    /\ \/ required = <<>>
       \/ (jwt.scope # NoneStr /\ ~AnyScopeMissing(required, jwt.scope))

\* the except block, given the introspection response
introspection_fallback(required, r) ==
    IF r.kind = "UnsupportedByProviderError"
    THEN MapperRaise("UnsupportedByProviderError", "introspection")
    ELSE IF r.kind = "TokenIntrospectionErrorResponse"
    THEN MapperRaise("ValidationError", "introspection")
    ELSE IF ~r.active THEN MapperRaise("ValidationError", "introspection")
    ELSE IF r.scope = NoneStr THEN MapperRaise("ValidationError", "introspection")
    ELSE IF AnyScopeMissing(required, r.scope)
    THEN MapperRaise("ValidationError", "introspection")
    ELSE handle_federated_userinfo(r, "introspection")

VARIABLES
    rs_pc,          \* "idle", "start", "introspect", "done"
    rs_op,          \* "access_token_required" or "handle_federated_access_token"
    rs_request,     \* the headers of the request
    rs_required,    \* the required_scopes argument
    rs_jwt,         \* what parsing the raw token as a JWT gives
    rs_introspect,  \* the introspection response, None while none was made
    rs_result       \* the response of the wrapped view, or the mapper's result

rs_vars == <<rs_pc, rs_op, rs_request, rs_required, rs_jwt, rs_introspect, rs_result>>

NoRsResult == [status |-> 0 - 1]

NoIntrospection == [kind |-> "none"]

RsIdle ==
    /\ rs_pc = "idle"
    /\ rs_op = "access_token_required"
    /\ rs_request = [authorization |-> NoneStr, accept |-> None]
    /\ rs_required = NoneStr
    /\ rs_jwt = [kind |-> "not_a_jwt"]
    /\ rs_introspect = NoIntrospection
    /\ rs_result = NoRsResult

\* wrapped_view up to the call of introspect_token
wrapped_view_check_header ==
    /\ rs_pc = "start"
    /\ rs_op = "access_token_required"
    /\ IF rs_request.authorization = NoneStr \/ ~startswith_Bearer(rs_request.authorization)
       THEN /\ rs_result' = RsResponse(401)
            /\ rs_pc' = "done"
       ELSE /\ rs_result' = rs_result
            /\ rs_pc' = "introspect"
    /\ UNCHANGED <<rs_op, rs_request, rs_required, rs_jwt, rs_introspect>>

\* wrapped_view from the introspection response to its return
wrapped_view_introspect ==
    /\ rs_pc = "introspect"
    /\ rs_op = "access_token_required"
    /\ \E r \in IntrospectionResponses :
        /\ rs_introspect' = r
        /\ rs_result' = wrapped_view_introspected(rs_request,
                            required_scopes_or_default(rs_required), r)
    /\ rs_pc' = "done"
    /\ UNCHANGED <<rs_op, rs_request, rs_required, rs_jwt>>

\* handle_federated_access_token: the try block
handle_federated_access_token_jwt ==
    /\ rs_pc = "start"
    /\ rs_op = "handle_federated_access_token"
    /\ IF JwtPathSucceeds(rs_jwt, required_scopes_or_default(rs_required))
       THEN /\ rs_result' = handle_federated_userinfo(rs_jwt, "jwt")
            /\ rs_pc' = "done"
       ELSE /\ rs_result' = rs_result
            /\ rs_pc' = "introspect"
    /\ UNCHANGED <<rs_op, rs_request, rs_required, rs_jwt, rs_introspect>>

\* handle_federated_access_token: the except block
handle_federated_access_token_introspect ==
    /\ rs_pc = "introspect"
    /\ rs_op = "handle_federated_access_token"
    /\ \E r \in IntrospectionResponses :
        /\ rs_introspect' = r
        /\ rs_result' = introspection_fallback(required_scopes_or_default(rs_required), r)
    /\ rs_pc' = "done"
    /\ UNCHANGED <<rs_op, rs_request, rs_required, rs_jwt>>

(***************************************************************************)
(* TokenVerificationMiddleware (integrations/django/middleware.py)         *)
(***************************************************************************)
\* the request: whether its path is LOGIN_URL, and its method
MiddlewareRequests == [is_login_url : BOOLEAN, method : {"GET", "POST"}]

\* the row of the OpenidSession table the session points to: whether it
\* exists, what its expiry properties say, and the tokens it holds
OpenidSessionRows ==
    [exists : BOOLEAN, is_access_token_expired : BOOLEAN,
     is_refresh_token_expired : BOOLEAN, tokens : {"old"}]

\* what client.exchange_refresh_token gives: a response or an exception
RefreshOutcomes == {"TokenSuccessResponse", "TokenErrorResponse", "raises"}

\* OpenidSession.update_session(exchange_response) followed by save()
row_update_session(row) ==
    [row EXCEPT !.tokens = "new", !.is_access_token_expired = FALSE]

\* the condition under which the refresh token is used
CanRefreshAlways(row) == TRUE

CanRefresh(row) == ~row.is_refresh_token_expired

VARIABLES
    mw_pc,         \* "idle", "start", "exchange", "done"
    mw_request,    \* the request
    mw_session,    \* request.session.get("openid_session"): TRUE when set
    mw_row,        \* the row of the OpenidSession table
    mw_exchanges,  \* the refresh exchanges made for the request, in order
    mw_result      \* "get_response", "redirect", "DoesNotExist", "raises"

mw_vars == <<mw_pc, mw_request, mw_session, mw_row, mw_exchanges, mw_result>>

MiddlewareIdle ==
    /\ mw_pc = "idle"
    /\ mw_request = [is_login_url |-> FALSE, method |-> "GET"]
    /\ mw_session = FALSE
    /\ mw_row = [exists |-> FALSE, is_access_token_expired |-> FALSE,
                 is_refresh_token_expired |-> FALSE, tokens |-> "old"]
    /\ mw_exchanges = <<>>
    /\ mw_result = "none"

MiddlewareReturn(r) ==
    /\ mw_result' = r
    /\ mw_pc' = "done"

\* TokenVerificationMiddleware.__call__ up to the refresh exchange
middleware_call ==
    /\ mw_pc = "start"
    /\ IF mw_request.is_login_url THEN MiddlewareReturn("get_response")
       ELSE IF ~mw_session THEN MiddlewareReturn("get_response")
       ELSE IF ~mw_row.exists THEN MiddlewareReturn("DoesNotExist")
       ELSE IF ~mw_row.is_access_token_expired THEN MiddlewareReturn("get_response")
       ELSE IF CanRefresh(mw_row)
       THEN mw_pc' = "exchange" /\ UNCHANGED mw_result
       ELSE MiddlewareReturn("redirect")
    /\ UNCHANGED <<mw_request, mw_session, mw_row, mw_exchanges>>

\* ... and from the answer of the refresh exchange on
middleware_exchange ==
    /\ mw_pc = "exchange"
    /\ \E r \in RefreshOutcomes :
        /\ mw_exchanges' = Append(mw_exchanges, r)
        /\ IF r = "TokenSuccessResponse"
           THEN mw_row' = row_update_session(mw_row) /\ MiddlewareReturn("get_response")
           ELSE IF r = "TokenErrorResponse"
           THEN UNCHANGED mw_row /\ MiddlewareReturn("redirect")
           ELSE UNCHANGED mw_row /\ MiddlewareReturn("raises")
    /\ UNCHANGED <<mw_request, mw_session>>

(***************************************************************************)
(* OpenidUser.update_session (integrations/django/models.py)               *)
(***************************************************************************)
\* the number of update_session calls of one behaviour
MaxUpdates == 2

\* the sid claim of the user's ID-Token
Sids == {None, "s1", "s2"}

\* the fields of a TokenSuccessResponse that update_session reads
SessionTokenResponses ==
    [access_token : {"at1", "at2"}, refresh_token : {None, "rt1"},
     scope : {"openid"}, expires_in : {NoneInt, 1}, refresh_expires_in : {NoneInt, 2}]

\* calc_expiry(t) at the time t0 of the call
calc_expiry(t, t0) == IF t # NoneInt THEN t0 + t ELSE NoneInt

\* x or ""
or_empty(x) == IF x = None THEN "" ELSE x

\* the column values update_session derives from a token response
SessionColumns(sid, token_response, t0) ==
    [sid |-> or_empty(sid),
     scope |-> token_response.scope,
     access_token |-> token_response.access_token,
     access_token_expiry |-> calc_expiry(token_response.expires_in, t0),
     refresh_token |-> or_empty(token_response.refresh_token),
     refresh_token_expiry |-> calc_expiry(token_response.refresh_expires_in, t0)]

\* OpenidSession.objects.filter(sid=sid).exists()
SidExists(table, sid) == \E i \in 1..Len(table) : table[i].sid = sid

\* the row a matching session is left with in storage: the in-memory object
\* gets the new values, but it is never saved
StoredAfterUpdate(row, new) == row

\* the table after update_session(token_response) of a user whose ID-Token
\* has the given sid
update_session(table, sid, token_response, t0) ==
    IF sid # None /\ SidExists(table, sid)
    THEN [i \in 1..Len(table) |->
            IF table[i].sid = sid
            THEN StoredAfterUpdate(table[i], SessionColumns(sid, token_response, t0))
            ELSE table[i]]
    ELSE Append(table, SessionColumns(sid, token_response, t0))

VARIABLES
    us_table,    \* the rows of the OpenidSession table
    us_calls,    \* the number of update_session calls made; also the clock
    us_last      \* the arguments of the last call, and whether its sid existed

us_vars == <<us_table, us_calls, us_last>>

NoUpdate ==
    [sid |-> None, existed |-> FALSE, rows |-> 0,
     columns |-> SessionColumns(None, [access_token |-> "at1", refresh_token |-> None,
                                       scope |-> "openid", expires_in |-> NoneInt,
                                       refresh_expires_in |-> NoneInt], 0)]

UpdateSessionIdle ==
    /\ us_table = <<>>
    /\ us_calls = 0
    /\ us_last = NoUpdate

\* one call of OpenidUser.update_session
UpdateSession ==
    /\ us_calls < MaxUpdates
    /\ \E sid \in Sids, token_response \in SessionTokenResponses :
        /\ us_table' = update_session(us_table, sid, token_response, us_calls)
        /\ us_last' = [sid |-> sid,
                       existed |-> sid # None /\ SidExists(us_table, sid),
                       rows |-> Len(us_table),
                       columns |-> SessionColumns(sid, token_response, us_calls)]
    /\ us_calls' = us_calls + 1

(***************************************************************************)
(* PKCE in the Authorization Code Flow                                     *)
(* (flows/authorization_code_flow/__init__.py and client.py)               *)
(*                                                                         *)
(* Two login attempts of one client.  A parameter value is a string, None  *)
(* or the base64 text of a SHA-256 digest, which is kept symbolic as a     *)
(* term over its input; a message is the record of its parameters.         *)
(***************************************************************************)
PkceAttempts == {1, 2}

StrParam(s) == [kind |-> "str", of |-> s]

NoneParam == [kind |-> "None", of |-> ""]

\* pkce.get_code_challenge of a verifier
S256Param(code_verifier) == [kind |-> "b64(sha256)", of |-> code_verifier.of]

\* the code verifier the caller keeps for an attempt, None without PKCE
AttemptVerifier(a, use_pkce) ==
    IF ~use_pkce THEN NoneParam
    ELSE IF a = 1 THEN StrParam("verifier-1") ELSE StrParam("verifier-2")

\* the code_challenge the caller passes to start_authentication
AttemptChallengePlain(code_verifier) == code_verifier

AttemptChallenge(code_verifier) ==
    IF code_verifier = NoneParam THEN NoneParam ELSE S256Param(code_verifier)

AttemptMethod(code_verifier) ==
    IF code_verifier = NoneParam THEN NoneParam ELSE StrParam("S256")

\* impl.start_authentication: the parameters of the AuthenticationRequest
\* that encode_url puts into the URL
start_authentication_url(state, nonce, code_challenge, code_challenge_method) ==
    [scope |-> StrParam("openid"),
     client_id |-> StrParam("a"),
     redirect_uri |-> StrParam(CallbackUri),
     response_type |-> StrParam("code"),
     state |-> state,
     nonce |-> nonce,
     prompt |-> NoneParam,
     code_challenge |-> code_challenge,
     code_challenge_method |-> code_challenge_method]

\* exchange_code_for_tokens: the parameters of the TokenRequest that is
\* posted as the form body
token_request_body(code, redirect_uri, code_verifier, code_challenge, code_challenge_method) ==
    [code |-> code,
     redirect_uri |-> redirect_uri,
     client_id |-> StrParam("a"),
     grant_type |-> StrParam("authorization_code"),
     code_verifier |-> code_verifier,
     code_challenge |-> code_challenge,
     code_challenge_method |-> code_challenge_method]

\* what the callback URL of an attempt carries
CallbackKinds == {"error", "other_state", "success"}

VARIABLES
    pf_pc,        \* per attempt: "idle", "start", "started", "handled"
    pf_attempt,   \* per attempt: what the caller keeps (state, nonce, verifier)
    pf_url,       \* per attempt: the URL start_authentication returned
    pf_posts      \* the token requests sent, in order, each with its attempt

pf_vars == <<pf_pc, pf_attempt, pf_url, pf_posts>>

NoAttempt == [state |-> NoneParam, nonce |-> NoneParam, code_verifier |-> NoneParam]

NoAuthUrl == [error |-> "none"]

PkceFlowIdle ==
    /\ pf_pc = [a \in PkceAttempts |-> "idle"]
    /\ pf_attempt = [a \in PkceAttempts |-> NoAttempt]
    /\ pf_url = [a \in PkceAttempts |-> NoAuthUrl]
    /\ pf_posts = <<>>

\* the facade's start_authentication for attempt a: the caller draws state,
\* nonce and, with PKCE, a verifier, and passes the verifier's challenge
pkce_start_authentication(a) ==
    /\ pf_pc[a] = "start"
    /\ \E st \in {"0", "42"}, use_pkce \in BOOLEAN :
        LET code_verifier == AttemptVerifier(a, use_pkce)
            kept == [state |-> StrParam(st), nonce |-> StrParam("n"),
                     code_verifier |-> code_verifier]
        IN  /\ pf_attempt' = [pf_attempt EXCEPT ![a] = kept]
            /\ pf_url' = [pf_url EXCEPT ![a] =
                   start_authentication_url(kept.state, kept.nonce,
                       AttemptChallenge(code_verifier), AttemptMethod(code_verifier))]
    /\ pf_pc' = [pf_pc EXCEPT ![a] = "started"]
    /\ UNCHANGED pf_posts

\* the facade's handle_authentication_result for attempt a, called with the
\* state and the verifier kept for it: an error response and a response with
\* another state raise, a success response is exchanged
pkce_handle_authentication_result(a) ==
    /\ pf_pc[a] = "started"
    /\ \E kind \in CallbackKinds :
        IF kind = "success"
        THEN pf_posts' = Append(pf_posts,
                 [attempt |-> a,
                  body |-> token_request_body(StrParam("c1"), StrParam(CallbackUri),
                               pf_attempt[a].code_verifier,
                               AttemptChallenge(pf_attempt[a].code_verifier),
                               AttemptMethod(pf_attempt[a].code_verifier))])
        ELSE UNCHANGED pf_posts
    /\ pf_pc' = [pf_pc EXCEPT ![a] = "handled"]
    /\ UNCHANGED <<pf_attempt, pf_url>>

(***************************************************************************)
(* The variables of the library functions that are exercised on their own, *)
(* and the state in which none of them is in use.                          *)
(***************************************************************************)
lib_vars == <<codec_vars, lt_vars, rd_vars, disc_vars, pkce_vars, rs_vars, mw_vars, us_vars, pf_vars>>

LibIdle ==
    CodecIdle /\ LogoutTokenIdle /\ RedirectIdle /\ DiscoveryIdle /\ PkceIdle /\ RsIdle /\ MiddlewareIdle /\ UpdateSessionIdle /\ PkceFlowIdle

(***************************************************************************)
(* Specification of the validator: a token and the caller's expectations   *)
(* are drawn, then validate_extern is applied once.                        *)
(***************************************************************************)
VARIABLES v_pc, v_token, v_expect, v_result

v_vars == <<v_pc, v_token, v_expect, v_result>>

NoResult == [error |-> "none", evaluated |-> <<>>]

InitValidate ==
    /\ v_pc = "start"
    /\ v_token \in IdTokens
    /\ v_expect \in Expectations
    /\ v_result = NoResult
    /\ client = [token_endpoint |-> TokenEndpoint, authentication_redirect_uri |-> CallbackUri,
                 client_auth |-> ClientSecretBasicAuth]
    /\ HarIdle
    /\ ViewIdle
    /\ LibIdle
    /\ construction = ConstructedConfidential
    /\ FramesIdle
    /\ CacheIdle

Validate ==
    /\ v_pc = "start"
    /\ v_result' = validate_extern(v_token, v_expect, Now)
    /\ v_pc' = "done"
    /\ UNCHANGED <<v_token, v_expect>>
    /\ UNCHANGED <<har_vars, view_vars, construction, frames, cache_vars, lib_vars>>

NextValidate == Validate

vars == <<v_vars, har_vars, view_vars, construction, frames, cache_vars, lib_vars>>

SpecValidate == InitValidate /\ [][NextValidate]_vars

(***************************************************************************)
(* Specification of the flow: callers invoke handle_authentication_result  *)
(* on one client, one call after the other.                                *)
(***************************************************************************)
ValidatorIdle ==
    /\ v_pc = "idle"
    /\ v_token = NoToken
    /\ v_expect = [issuer |-> ProviderIssuer, client_id |-> "a", nonce |-> None,
                   extra_trusted_audiences |-> {}, min_iat |-> 0,
                   validate_acr |-> None, min_auth_time |-> 0]
    /\ v_result = NoResult

Init ==
    /\ client \in Clients
    /\ construction = ConstructedConfidential
    /\ FramesIdle
    /\ CacheIdle
    /\ HarIdle
    /\ ValidatorIdle
    /\ ViewIdle
    /\ LibIdle

Next ==
    \/ (CallFacade /\ UNCHANGED <<v_vars, view_vars, construction, frames, cache_vars, lib_vars>>)
    \/ (CallImpl /\ UNCHANGED <<v_vars, view_vars, construction, frames, cache_vars, lib_vars>>)
    \/ (HarStep /\ UNCHANGED <<v_vars, view_vars, construction, frames, cache_vars, lib_vars>>)
    \/ (ReturnToCaller /\ UNCHANGED <<v_vars, view_vars, construction, frames, cache_vars, lib_vars>>)

Spec == Init /\ [][Next]_vars

(***************************************************************************)
(* Specification of the facade: a client is constructed, then callers      *)
(* invoke its operations, one call after the other.                        *)
(***************************************************************************)
InitClient ==
    /\ client = NoClient
    /\ construction = NotConstructed
    /\ FramesIdle
    /\ CacheIdle
    /\ HarIdle
    /\ ValidatorIdle
    /\ ViewIdle
    /\ LibIdle

NextClient ==
    \/ (OpenidClient_init /\ UNCHANGED <<v_vars, view_vars, frames, cache_vars, lib_vars>>)
    \/ (Constructed /\ CallFacade /\ UNCHANGED <<v_vars, view_vars, construction, frames, cache_vars, lib_vars>>)
    \/ (CallOperation /\ UNCHANGED <<v_vars, view_vars, frames, cache_vars, lib_vars>>)
    \/ (OperationStep /\ UNCHANGED <<v_vars, view_vars, frames, cache_vars, lib_vars>>)
    \/ (HarStep /\ UNCHANGED <<v_vars, view_vars, construction, frames, cache_vars, lib_vars>>)
    \/ (ReturnToCaller /\ UNCHANGED <<v_vars, view_vars, construction, frames, cache_vars, lib_vars>>)

SpecClient == InitClient /\ [][NextClient]_vars

(***************************************************************************)
(* Specification of two concurrent login attempts on one client.           *)
(***************************************************************************)
conc_idle_vars ==
    <<calls, har_pc, har_args, har_redirect, har_msg, har_result, har_events, response,
      v_vars, view_vars, construction, cache_vars, lib_vars>>

InitConc ==
    /\ client \in Clients
    /\ construction = ConstructedConfidential
    /\ FramesIdle
    /\ HarIdle
    /\ ValidatorIdle
    /\ ViewIdle
    /\ LibIdle
    /\ CacheIdle

NextConc ==
    \E t \in Attempts :
        \/ (ThreadStart(t) /\ UNCHANGED conc_idle_vars)
        \/ (ThreadCall(t) /\ UNCHANGED conc_idle_vars)
        \/ (ThreadStep(t) /\ UNCHANGED conc_idle_vars)
        \/ (ThreadExchange(t) /\ UNCHANGED conc_idle_vars)

SpecConc == InitConc /\ [][NextConc]_vars

(***************************************************************************)
(* Specification of the client cache: requests call get_client             *)
(* concurrently, under each configuration of the settings.                 *)
(***************************************************************************)
InitCache ==
    /\ settings \in Settings
    /\ cache = NoClient
    /\ get_client_pc = [r \in Requests |-> "idle"]
    /\ own_base_uri = [r \in Requests |-> None]
    /\ local_client = [r \in Requests |-> NoClient]
    /\ discovered = [r \in Requests |-> FALSE]
    /\ client = NoClient
    /\ construction = NotConstructed
    /\ FramesIdle
    /\ HarIdle
    /\ ValidatorIdle
    /\ ViewIdle
    /\ LibIdle

NextCache ==
    \E r \in Requests :
        get_client(r) /\ UNCHANGED <<v_vars, har_vars, view_vars, construction, frames, lib_vars>>

SpecCache == InitCache /\ [][NextCache]_vars

(***************************************************************************)
(* Specification of the Django login: a user agent starts logins and sends *)
(* callback requests, which the view handles by calling the flow.          *)
(***************************************************************************)
InitView ==
    /\ client \in Clients
    /\ construction = ConstructedConfidential
    /\ FramesIdle
    /\ CacheIdle
    /\ HarIdle
    /\ ValidatorIdle
    /\ ViewIdle
    /\ LibIdle

NextView ==
    \/ (Tick /\ UNCHANGED <<v_vars, har_vars, construction, frames, cache_vars, lib_vars>>)
    \/ (InitLoginView_get /\ UNCHANGED <<v_vars, har_vars, construction, frames, cache_vars, lib_vars>>)
    \/ (CallbackRequest /\ UNCHANGED <<v_vars, har_vars, construction, frames, cache_vars, lib_vars>>)
    \/ (ViewStep /\ UNCHANGED <<v_vars, har_vars, construction, frames, cache_vars, lib_vars>>)
    \/ (exchange_code_for_token_call /\ UNCHANGED <<v_vars, construction, frames, cache_vars, lib_vars>>)
    \/ (HarStep /\ UNCHANGED <<v_vars, view_vars, construction, frames, cache_vars, lib_vars>>)
    \/ (exchange_code_for_token_result /\ UNCHANGED <<v_vars, construction, frames, cache_vars, lib_vars>>)

SpecView == InitView /\ [][NextView]_vars

(***************************************************************************)
(* Specification of the codec: constructor arguments of a message class    *)
(* are drawn, the message is constructed, encoded as a form body and into  *)
(* a URL, and decoded again.                                               *)
(***************************************************************************)
core_vars == <<v_vars, har_vars, view_vars, construction, frames, cache_vars>>

\* the flow, the views, the facade and the cache are not in use
CoreIdle ==
    /\ client = [token_endpoint |-> TokenEndpoint, authentication_redirect_uri |-> CallbackUri,
                 client_auth |-> ClientSecretBasicAuth]
    /\ construction = ConstructedConfidential
    /\ FramesIdle
    /\ CacheIdle
    /\ HarIdle
    /\ ValidatorIdle
    /\ ViewIdle

InitCodec ==
    /\ codec_pc = "start"
    /\ codec_cls \in MessageClasses
    /\ codec_args \in ArgsOf(codec_cls)
    /\ codec_msg = NoMessage
    /\ codec_base \in BaseUrls
    /\ codec_where \in {"query", "fragment"}
    /\ codec_other \in OtherParts(codec_cls)
    /\ codec_form = <<>>
    /\ codec_url = NoUrlParts
    /\ codec_parsed = NoParsed
    /\ CoreIdle
    /\ LogoutTokenIdle
    /\ RedirectIdle
    /\ DiscoveryIdle
    /\ PkceIdle
    /\ RsIdle
    /\ MiddlewareIdle
    /\ UpdateSessionIdle
    /\ PkceFlowIdle

NextCodec ==
    \/ (Construct /\ UNCHANGED <<core_vars, lt_vars, rd_vars, disc_vars, pkce_vars, rs_vars, mw_vars, us_vars, pf_vars>>)
    \/ (Encode /\ UNCHANGED <<core_vars, lt_vars, rd_vars, disc_vars, pkce_vars, rs_vars, mw_vars, us_vars, pf_vars>>)
    \/ (Parse /\ UNCHANGED <<core_vars, lt_vars, rd_vars, disc_vars, pkce_vars, rs_vars, mw_vars, us_vars, pf_vars>>)

SpecCodec == InitCodec /\ [][NextCodec]_vars

(***************************************************************************)
(* Specification of the logout token validator: a token and the arguments  *)
(* are drawn, then validate_extern is applied once.                        *)
(***************************************************************************)
InitLogoutToken ==
    /\ lt_pc = "start"
    /\ lt_token \in LogoutTokens
    /\ lt_expect \in LogoutExpectations
    /\ lt_result = "none"
    /\ lt_hooks = <<>>
    /\ CoreIdle
    /\ CodecIdle
    /\ RedirectIdle
    /\ DiscoveryIdle
    /\ PkceIdle
    /\ RsIdle
    /\ MiddlewareIdle
    /\ UpdateSessionIdle
    /\ PkceFlowIdle

NextLogoutToken == ValidateLogoutToken /\ UNCHANGED <<core_vars, codec_vars, rd_vars, disc_vars, pkce_vars, rs_vars, mw_vars, us_vars, pf_vars>>

SpecLogoutToken == InitLogoutToken /\ [][NextLogoutToken]_vars

(***************************************************************************)
(* Specification of the redirect URI: one client, calls of the facade's    *)
(* start_authentication and handle_authentication_result in any order.     *)
(***************************************************************************)
InitRedirect ==
    /\ authentication_redirect_uri = PlainRedirectUri
    /\ redirect_log = <<>>
    /\ CoreIdle
    /\ CodecIdle
    /\ LogoutTokenIdle
    /\ DiscoveryIdle
    /\ PkceIdle
    /\ RsIdle
    /\ MiddlewareIdle
    /\ UpdateSessionIdle
    /\ PkceFlowIdle

NextRedirect ==
    \E args \in RedirectArgs :
        \/ (facade_start_authentication(args) /\ UNCHANGED <<core_vars, codec_vars, lt_vars, disc_vars, pkce_vars, rs_vars, mw_vars, us_vars, pf_vars>>)
        \/ (facade_handle_authentication_result(args)
                /\ UNCHANGED <<core_vars, codec_vars, lt_vars, disc_vars, pkce_vars, rs_vars, mw_vars, us_vars, pf_vars>>)

SpecRedirect == InitRedirect /\ [][NextRedirect]_vars

(***************************************************************************)
(* Specification of discovery: an issuer and the provider's answer are     *)
(* drawn, then discover_configuration_from_issuer runs once.               *)
(***************************************************************************)
InitDiscovery ==
    /\ disc_pc = "start"
    /\ disc_issuer \in Issuers
    /\ disc_response \in DiscoveryOutcomes
    /\ disc_result = NoDiscoveryResult
    /\ CoreIdle
    /\ CodecIdle
    /\ LogoutTokenIdle
    /\ RedirectIdle
    /\ PkceIdle
    /\ RsIdle
    /\ MiddlewareIdle
    /\ UpdateSessionIdle
    /\ PkceFlowIdle

NextDiscovery ==
    \/ (discover_get /\ UNCHANGED <<core_vars, codec_vars, lt_vars, rd_vars, pkce_vars, rs_vars, mw_vars, us_vars, pf_vars>>)
    \/ (discover_check_content_type /\ UNCHANGED <<core_vars, codec_vars, lt_vars, rd_vars, pkce_vars, rs_vars, mw_vars, us_vars, pf_vars>>)
    \/ (discover_parse /\ UNCHANGED <<core_vars, codec_vars, lt_vars, rd_vars, pkce_vars, rs_vars, mw_vars, us_vars, pf_vars>>)

SpecDiscovery == InitDiscovery /\ [][NextDiscovery]_vars

(***************************************************************************)
(* Specification of PKCE: a function, a length and a state of the random   *)
(* source are drawn; the function is called and the challenge of the       *)
(* returned verifier is computed once more.                                *)
(***************************************************************************)
InitPkce ==
    /\ pkce_pc = "start"
    /\ pkce_op \in {"generate_code_verifier", "generate_pkce_pair"}
    /\ pkce_length \in Lengths
    /\ pkce_seed \in Seeds
    /\ pkce_result = NoPkceResult
    /\ pkce_again = NoPkceResult
    /\ CoreIdle
    /\ CodecIdle
    /\ LogoutTokenIdle
    /\ RedirectIdle
    /\ DiscoveryIdle
    /\ RsIdle
    /\ MiddlewareIdle
    /\ UpdateSessionIdle
    /\ PkceFlowIdle

NextPkce ==
    \/ (Generate /\ UNCHANGED <<core_vars, codec_vars, lt_vars, rd_vars, disc_vars, rs_vars, mw_vars, us_vars, pf_vars>>)
    \/ (Recompute /\ UNCHANGED <<core_vars, codec_vars, lt_vars, rd_vars, disc_vars, rs_vars, mw_vars, us_vars, pf_vars>>)

SpecPkce == InitPkce /\ [][NextPkce]_vars


(***************************************************************************)
(* Specification of the resource server: a request, the required scopes    *)
(* and the raw token are drawn; the decorated view or the user mapper      *)
(* handles them, asking the provider for an introspection when it has to.  *)
(***************************************************************************)
InitAccessToken ==
    /\ rs_pc = "start"
    /\ rs_op \in {"access_token_required", "handle_federated_access_token"}
    /\ rs_request \in [authorization : AuthorizationHeaders, accept : AcceptHeaders]
    /\ rs_required \in RequiredScopes
    /\ rs_jwt \in JwtOutcomes
    /\ rs_introspect = NoIntrospection
    /\ rs_result = NoRsResult
    /\ CoreIdle
    /\ CodecIdle
    /\ LogoutTokenIdle
    /\ RedirectIdle
    /\ DiscoveryIdle
    /\ PkceIdle
    /\ MiddlewareIdle
    /\ UpdateSessionIdle
    /\ PkceFlowIdle

NextAccessToken ==
    \/ (wrapped_view_check_header /\ UNCHANGED <<core_vars, codec_vars, lt_vars, rd_vars, disc_vars, pkce_vars, mw_vars, us_vars, pf_vars>>)
    \/ (wrapped_view_introspect /\ UNCHANGED <<core_vars, codec_vars, lt_vars, rd_vars, disc_vars, pkce_vars, mw_vars, us_vars, pf_vars>>)
    \/ (handle_federated_access_token_jwt /\ UNCHANGED <<core_vars, codec_vars, lt_vars, rd_vars, disc_vars, pkce_vars, mw_vars, us_vars, pf_vars>>)
    \/ (handle_federated_access_token_introspect /\ UNCHANGED <<core_vars, codec_vars, lt_vars, rd_vars, disc_vars, pkce_vars, mw_vars, us_vars, pf_vars>>)

SpecAccessToken == InitAccessToken /\ [][NextAccessToken]_vars


(***************************************************************************)
(* Specification of the middleware: a request, its session and the row of  *)
(* the OpenidSession table are drawn; the middleware handles the request.  *)
(***************************************************************************)
InitMiddleware ==
    /\ mw_pc = "start"
    /\ mw_request \in MiddlewareRequests
    /\ mw_session \in BOOLEAN
    /\ mw_row \in OpenidSessionRows
    /\ mw_exchanges = <<>>
    /\ mw_result = "none"
    /\ CoreIdle
    /\ CodecIdle
    /\ LogoutTokenIdle
    /\ RedirectIdle
    /\ DiscoveryIdle
    /\ PkceIdle
    /\ RsIdle
    /\ UpdateSessionIdle
    /\ PkceFlowIdle

NextMiddleware ==
    \/ (middleware_call /\ UNCHANGED <<core_vars, codec_vars, lt_vars, rd_vars, disc_vars, pkce_vars, rs_vars, us_vars, pf_vars>>)
    \/ (middleware_exchange /\ UNCHANGED <<core_vars, codec_vars, lt_vars, rd_vars, disc_vars, pkce_vars, rs_vars, us_vars, pf_vars>>)

SpecMiddleware == InitMiddleware /\ [][NextMiddleware]_vars


(***************************************************************************)
(* Specification of the session table: update_session is called with any   *)
(* sid and any token response, starting from the empty table.              *)
(***************************************************************************)
InitUpdateSession ==
    /\ us_table = <<>>
    /\ us_calls = 0
    /\ us_last = NoUpdate
    /\ CoreIdle
    /\ CodecIdle
    /\ LogoutTokenIdle
    /\ RedirectIdle
    /\ DiscoveryIdle
    /\ PkceIdle
    /\ RsIdle
    /\ MiddlewareIdle
    /\ PkceFlowIdle

NextUpdateSession == UpdateSession /\ UNCHANGED <<core_vars, codec_vars, lt_vars, rd_vars, disc_vars, pkce_vars, rs_vars, mw_vars, pf_vars>>

SpecUpdateSession == InitUpdateSession /\ [][NextUpdateSession]_vars


(***************************************************************************)
(* Specification of PKCE in the flow: two login attempts, each started and *)
(* then finished, in any interleaving.                                     *)
(***************************************************************************)
InitPkceFlow ==
    /\ pf_pc = [a \in PkceAttempts |-> "start"]
    /\ pf_attempt = [a \in PkceAttempts |-> NoAttempt]
    /\ pf_url = [a \in PkceAttempts |-> NoAuthUrl]
    /\ pf_posts = <<>>
    /\ CoreIdle
    /\ CodecIdle
    /\ LogoutTokenIdle
    /\ RedirectIdle
    /\ DiscoveryIdle
    /\ PkceIdle
    /\ RsIdle
    /\ MiddlewareIdle
    /\ UpdateSessionIdle

NextPkceFlow ==
    \E a \in PkceAttempts :
        \/ (pkce_start_authentication(a) /\ UNCHANGED <<core_vars, codec_vars, lt_vars, rd_vars, disc_vars, pkce_vars, rs_vars, mw_vars, us_vars>>)
        \/ (pkce_handle_authentication_result(a) /\ UNCHANGED <<core_vars, codec_vars, lt_vars, rd_vars, disc_vars, pkce_vars, rs_vars, mw_vars, us_vars>>)

SpecPkceFlow == InitPkceFlow /\ [][NextPkceFlow]_vars


(***************************************************************************)
(* Properties of IdToken.validate_extern (checked under SpecValidate)      *)
(***************************************************************************)
V_done == v_pc = "done"

\* A check is violated when its statement is executed and its condition is false.
Violated(c) ==
    CheckApplies(c, v_token, v_expect) /\ ~CheckPasses(c, v_token, v_expect, Now)

\* The order the specification fixes: issuer, audience, azp presence, azp
\* value, expiry, iat, nonce, acr, auth_time.
C4_Order ==
    <<"issuer", "aud_contains", "aud_trusted", "azp_present", "azp_value",
      "expiry", "iat", "nonce", "acr", "auth_time">>

\* Position of the earliest violated check in that order, 0 if there is none.
RECURSIVE C4_FirstFrom(_)
C4_FirstFrom(i) ==
    IF i > Len(C4_Order) THEN 0
    ELSE IF Violated(C4_Order[i]) THEN i ELSE C4_FirstFrom(i + 1)

C4_PosOf ==
    [c \in Range(C4_Order) |-> CHOOSE i \in 1..Len(C4_Order) : C4_Order[i] = c]

\* C4: validate_extern evaluates its checks in the fixed order issuer,
\* audience, azp presence, azp value, expiry, iat, nonce, acr, auth_time and
\* stops at the first violated one: the single error raised is that of the
\* earliest violated check, and no later check (the validate_acr callback
\* included) is evaluated.
C4_FirstFailureInOrder ==
    V_done =>
        LET first == C4_FirstFrom(1)
            ev == v_result.evaluated
        IN  /\ IF first = 0
               THEN v_result.error = OK
               ELSE /\ v_result.error = CheckMsg(C4_Order[first])
                    /\ ev # <<>>
                    /\ ev[Len(ev)] = C4_Order[first]
            /\ \A k \in 1..(Len(ev) - 1) : C4_PosOf[ev[k]] < C4_PosOf[ev[k + 1]]

\* A token violating several checks at once (issuer, expiry and a rejecting
\* acr callback): only the issuer check was evaluated.
C4_Witness ==
    /\ V_done
    /\ v_token.iss # v_expect.issuer
    /\ v_token.exp < Now
    /\ v_token.acr # None /\ v_expect.validate_acr = "reject"
    /\ v_result.error = MsgIssuer
    /\ v_result.evaluated = <<"issuer">>

\* C5: validate_extern passes only for a token whose iss equals the expected
\* issuer; any other iss is rejected with the unexpected-issuer message,
\* whatever the other claims are.
C5_IssuerExact ==
    V_done =>
        /\ (v_result.error = OK => v_token.iss = v_expect.issuer)
        /\ (v_token.iss # v_expect.issuer => v_result.error = MsgIssuer)

C5_Witness ==
    /\ V_done
    /\ v_token.iss = WrongIssuer
    /\ v_token.aud = AudStr("a")
    /\ v_token.exp > Now
    /\ v_result.error = MsgIssuer

\* The audience rule as the specification states it: client_id is contained
\* in aud and, if aud is a list, every entry other than client_id is trusted.
C6_AudienceRule(tok, e) ==
    /\ e.client_id \in Range(tok.aud.items)
    /\ tok.aud.isList =>
           \A i \in Range(tok.aud.items) \ {e.client_id} : i \in e.extra_trusted_audiences

\* C6: (for a token that passed the issuer check) the audience step passes
\* exactly when client_id is in aud and every other entry of a list aud is in
\* extra_trusted_audiences.
C6_AudienceExact ==
    (V_done /\ v_token.iss = v_expect.issuer) =>
        ((v_result.error \notin {MsgAudContains, MsgAudTrusted})
            <=> C6_AudienceRule(v_token, v_expect))

C7_OtherClaimsValid ==
    /\ v_token.iss = v_expect.issuer
    /\ v_token.exp > Now
    /\ v_token.iat >= v_expect.min_iat
    /\ v_token.nonce = None
    /\ v_token.acr = None
    /\ v_token.auth_time = NoneInt

\* C7: a token whose aud is a list with more than one entry and no azp is
\* rejected; with azp = client_id, aud = [client_id, b] and
\* extra_trusted_audiences = [b] (other claims valid) it passes.
C7_AzpRequired ==
    V_done =>
        /\ (v_token.aud.isList /\ Len(v_token.aud.items) > 1 /\ v_token.azp = None)
               => v_result.error # OK
        /\ (/\ v_token.aud = AudList(<<"a", "b">>)
            /\ v_token.azp = v_expect.client_id
            /\ v_expect.extra_trusted_audiences = {"b"}
            /\ C7_OtherClaimsValid)
               => v_result.error = OK

\* C8: whenever azp is present, validate_extern passes only if azp equals
\* client_id, also when client_id is among the audiences.
C8_AzpIsClient ==
    (V_done /\ v_token.azp # None /\ v_token.azp # v_expect.client_id)
        => v_result.error # OK

\* A token for several audiences, client_id among them and all trusted, but
\* issued to another authorized party.
C8_Witness ==
    /\ V_done
    /\ v_token.aud = AudList(<<"a", "b">>)
    /\ v_token.azp = "b"
    /\ v_result.error = MsgAzpValue

C9_Earlier == {MsgIssuer, MsgAudContains, MsgAudTrusted, MsgAzpPresent, MsgAzpValue}

C10_NonceMatches ==
    (V_done /\ v_token.nonce # None /\ v_token.nonce # v_expect.nonce)
        => v_result.error # OK

C10_Witness ==
    /\ V_done
    /\ v_token.nonce = "42"
    /\ v_expect.nonce = None
    /\ v_result.error = MsgNonce

\* C11: when the caller expects a nonce and the token carries no nonce claim
\* at all, validate_extern raises the nonce-mismatch error: a token stripped
\* of its nonce is never accepted.
C11_StrippedNonceRejected ==
    (V_done /\ v_expect.nonce # None /\ v_token.nonce = None)
        => v_result.error # OK

\* The checks that run before the iat check.
C12_Before == {"issuer", "aud_contains", "aud_trusted", "azp_present", "azp_value", "expiry"}

\* C12: with the checks before it passing, validate_extern raises the
\* issued-too-far-in-the-past error exactly when iat < min_iat; iat equal to
\* min_iat is accepted by this check, and with min_iat = 0 every iat is.
C12_IatBoundary ==
    V_done =>
        /\ (\A c \in C12_Before : ~Violated(c)) =>
               (v_result.error = MsgIat <=> v_token.iat < v_expect.min_iat)
        /\ v_result.error = MsgIat => v_token.iat < v_expect.min_iat
        /\ v_expect.min_iat = 0 => v_result.error # MsgIat

\* iat equal to a positive min_iat, and the token is accepted.
C12_Witness ==
    /\ V_done
    /\ v_expect.min_iat > 0
    /\ v_token.iat = v_expect.min_iat
    /\ v_result.error = OK

\* The checks that run before the auth_time check.
C13_Before == C12_Before \cup {"iat", "nonce", "acr"}

\* C13: with the checks before it passing, a token carrying auth_time is
\* rejected (authenticated too far in the past) exactly when
\* auth_time < min_auth_time, auth_time equal to min_auth_time being
\* accepted; a token without auth_time is never rejected by this step.
C13_AuthTimeBoundary ==
    V_done =>
        /\ (v_token.auth_time # NoneInt /\ \A c \in C13_Before : ~Violated(c)) =>
               /\ v_result.error = MsgAuthTime <=> v_token.auth_time < v_expect.min_auth_time
               /\ v_result.error = OK <=> v_token.auth_time >= v_expect.min_auth_time
        /\ v_token.auth_time = NoneInt => v_result.error # MsgAuthTime
        /\ (v_token.auth_time = NoneInt /\ \A c \in C13_Before : ~Violated(c)) =>
               v_result.error = OK

\* auth_time equal to a positive min_auth_time, and the token is accepted.
C13_Witness ==
    /\ V_done
    /\ v_expect.min_auth_time > 0
    /\ v_token.auth_time = v_expect.min_auth_time
    /\ v_result.error = OK

(***************************************************************************)
(* Properties of handle_authentication_result (checked under Spec)         *)
(***************************************************************************)
HarReturned == har_pc = "returned"

\* The running call has sent a request to the token endpoint.
HarSent == "token_request" \in Range(har_events)

\* The module-level function was entered (the facade did not refuse).
HarEntered == "error_check" \in Range(har_events)

HarEventPos(ev) == CHOOSE k \in 1..Len(har_events) : har_events[k] = ev

\* The callback URL is a success response: no error parameter in the query
\* string and a code in the fragment or the query string.
C1_IsSuccessUrl(url) ==
    /\ url.query.error = None
    /\ url.fragment.code # None \/ url.query.code # None

\* The state such a URL carries (None if absent).
C1_UrlState(url) ==
    IF url.fragment.code # None THEN url.fragment.state ELSE url.query.state

\* C1: for a callback URL that is a success response, the call raises
\* ValidationError whenever the state the URL carries differs from the
\* expected state (an absent state differs from every present one) and then
\* sends nothing to the token endpoint; with a matching state it goes on to
\* the exchange.  In every call the state comparison precedes the request.
C1_StateBeforeExchange ==
    /\ (har_pc = "exchange" \/ HarSent) =>
           /\ "state_check" \in Range(har_events)
           /\ C1_IsSuccessUrl(har_args.current_url)
           /\ C1_UrlState(har_args.current_url) = har_args.state
    /\ HarSent => HarEventPos("state_check") < HarEventPos("token_request")
    /\ (HarReturned /\ HarEntered /\ C1_IsSuccessUrl(har_args.current_url)) =>
           IF C1_UrlState(har_args.current_url) # har_args.state
           THEN har_result.kind = "ValidationError" /\ ~HarSent
           ELSE HarSent

\* The URL carries no state at all while the caller expects one.
C1_Witness ==
    /\ HarReturned
    /\ C1_IsSuccessUrl(har_args.current_url)
    /\ C1_UrlState(har_args.current_url) = None
    /\ har_args.state = "42"
    /\ har_result.kind = "ValidationError"
    /\ ~HarSent

\* C2: a callback URL with an `error` parameter, in the query string or in
\* the fragment, makes the call fail with AuthenticationFailedError, before
\* the state comparison and without a request to the token endpoint,
\* whatever code and state the URL also carries.
C2_ErrorParamFails ==
    (/\ HarReturned
     /\ HarEntered
     /\ \/ har_args.current_url.query.error \in ErrorTypes
        \/ har_args.current_url.fragment.error \in ErrorTypes)
    => /\ har_result.kind = "AuthenticationFailedError"
       /\ "state_check" \notin Range(har_events)
       /\ ~HarSent

(***************************************************************************)
(* Properties of the login callback (checked under SpecView)               *)
(***************************************************************************)

\* C3 as stated: handle_authentication_result returns a TokenSuccessResponse
\* only after its ID-Token was parsed and validated against the expected
\* nonce and min_iat = the time the login was started.
C3_SuccessIsValidated ==
    (HarReturned /\ har_result.kind = "TokenSuccessResponse") =>
        /\ har_result.sig_ok
        /\ validate_extern(har_result.id_token, ViewExpect(session), now).error = OK

\* C3 as amended: handle_authentication_result returns the token response as
\* it is; it is its caller LoginCallbackView that logs the user in only
\* after extract_id has parsed the ID-Token of that response and validated
\* it against the session's nonce and min_iat = the time the login was
\* started (plus the standard claim checks), and that answers with the
\* Invalid ID-Token error instead when this validation fails.
C3_LoginOnlyAfterValidation ==
    /\ view_pc = "perform_login" =>
           /\ view_checked.done
           /\ view_checked.error = OK
           /\ view_checked.nonce = session.openid_auth_nonce
           /\ view_checked.min_iat = session.openid_auth_start_time
           /\ view_token.kind = "TokenSuccessResponse"
           /\ view_token.sig_ok
           /\ view_token.id_token.iss = ProviderIssuer
           /\ view_token.id_token.nonce \in {None, session.openid_auth_nonce}
           /\ view_token.id_token.iat >= session.openid_auth_start_time
           /\ view_token.id_token.exp > view_checked.at
    /\ view_response = "302 redirect" => view_checked.done /\ view_checked.error = OK
    /\ (view_checked.done /\ view_checked.error # OK) =>
           view_pc = "idle" /\ view_response = "401 Invalid ID-Token"

C3_Witness ==
    /\ view_pc = "perform_login"
    /\ session.openid_auth_start_time > 0
    /\ view_token.id_token.nonce = session.openid_auth_nonce
    /\ view_checked.error = OK

\* The steps of the callback view after check_auth_state.
PastAuthStateCheck ==
    view_pc \in {"check_login_timeout", "exchange_code_for_token", "await_token_response",
                 "extract_id", "perform_login"}

C30_Inv ==
    /\ PastAuthStateCheck => session.openid_auth_state # None
    /\ (view_pc = "idle" /\ view_response = "401 Invalid state")
            => view_token = NoHarResult /\ view_checked = NoChecked

C30_Answer ==
    (view_pc = "check_auth_state" /\ session.openid_auth_state = None /\ view_pc' # view_pc)
        => /\ view_pc' = "idle"
           /\ view_response' = "401 Invalid state"
           /\ token_requests' = token_requests
           /\ har_pc' = har_pc
           /\ session' = session

\* C30: a callback request in a session in which no login was started (no
\* stored state) is answered with 401 "Invalid state" whatever code or state
\* its URL carries: the view goes no further than check_auth_state, sends no
\* token request and leaves the session, and so the user, as it was.
C30_UnsolicitedCallback == []C30_Inv /\ [][C30_Answer]_vars

C30_Witness ==
    /\ view_pc = "idle"
    /\ view_response = "401 Invalid state"
    /\ session.openid_auth_state = None
    /\ session.user = None
    /\ view_url.query.code # None
    /\ view_url.query.state # None
    /\ token_requests = <<>>

(***************************************************************************)
(* Properties of the facade (checked under SpecClient)                     *)
(***************************************************************************)

\* C14: construction selects the client authentication by this rule and no
\* other: no secret -> none; a secret and client_secret_basic supported by
\* the provider -> client_secret_basic; a secret without that support ->
\* construction fails and no client exists (none that fell back to `none`).
\* The rule holds in every later state, so the selection never changes.
C14_AuthSelectedOnce ==
    /\ Constructed =>
           /\ construction.client_secret = None => client.client_auth = NoneAuth
           /\ construction.client_secret # None =>
                  /\ ClientSecretBasicAuth \in construction.auth_methods
                  /\ client.client_auth = ClientSecretBasicAuth
    /\ (/\ construction.outcome # "none"
        /\ construction.client_secret # None
        /\ ClientSecretBasicAuth \notin construction.auth_methods)
           => construction.outcome = "NotImplementedError"
    /\ ~Constructed => (client = NoClient /\ calls = 0 /\ token_requests = <<>>)
    /\ \A k \in 1..Len(token_requests) : token_requests[k].auth = client.client_auth

\* A confidential client has sent two token requests, both with the method
\* chosen at construction.
C14_Witness ==
    /\ Constructed
    /\ construction.client_secret # None
    /\ client.client_auth = ClientSecretBasicAuth
    /\ Len(token_requests) = MaxCalls

\* C14, the failing construction: a secret was given and the provider does
\* not list client_secret_basic.
C14_WitnessFailed ==
    /\ construction.outcome = "NotImplementedError"
    /\ client = NoClient

\* The operations of the facade that need the token endpoint.
C15_GrantOperations == TokenGrants \cup {"exchange_code_for_tokens", "facade"}

\* C15: on a client whose provider metadata has no token_endpoint, each of
\* the grant operations of the facade (authorization-code handling and
\* exchange, refresh-token exchange, password grant, client-credentials
\* grant) raises UnsupportedByProviderError, and no HTTP request is sent.
C15_NoTokenEndpointFailsFast ==
    (Constructed /\ client.token_endpoint = None) =>
        /\ token_requests = <<>>
        /\ response = NoResponse
        /\ har_pc \notin {"exchange", "grant_post"}
        /\ (HarReturned /\ har_args.entry \in C15_GrantOperations) =>
               /\ har_result.kind = "UnsupportedByProviderError"
               /\ har_events = <<"facade">>

\* The second call on such a client, a password grant, has failed too.
C15_Witness ==
    /\ Constructed
    /\ client.token_endpoint = None
    /\ calls = MaxCalls
    /\ HarReturned
    /\ har_args.entry = "direct_access_grant"
    /\ har_result.kind = "UnsupportedByProviderError"

\* The interactive operations of the facade.
C16_Interactive == {"start_authentication", "facade", "exchange_code_for_tokens"}

\* C16 as stated: on a client without redirect URI, start_authentication,
\* handle_authentication_result and exchange_code_for_tokens fail with
\* ImpossibleOperationError for every provider configuration and every
\* argument, and send no HTTP request.
C16_AlwaysImpossible ==
    (/\ Constructed
     /\ client.authentication_redirect_uri = None
     /\ HarReturned
     /\ har_args.entry \in C16_Interactive)
    => /\ har_result.kind = "ImpossibleOperationError"
       /\ ~HarSent

\* C16 as amended: on a client without redirect URI, start_authentication
\* fails with ImpossibleOperationError for every provider configuration;
\* handle_authentication_result and exchange_code_for_tokens fail with
\* ImpossibleOperationError when the provider has a token endpoint and with
\* UnsupportedByProviderError when it has none (that check comes first).
\* None of the three sends an HTTP request, whatever the arguments.
C16_NoRedirectUriFails ==
    (Constructed /\ client.authentication_redirect_uri = None) =>
        /\ (har_args.entry \in C16_Interactive) =>
               /\ ~HarSent
               /\ response = NoResponse
               /\ har_pc \notin {"check_error", "parse", "check_state", "exchange"}
        /\ (HarReturned /\ har_args.entry \in C16_Interactive) =>
               /\ har_result.kind =
                      IF har_args.entry # "start_authentication" /\ client.token_endpoint = None
                      THEN "UnsupportedByProviderError"
                      ELSE "ImpossibleOperationError"
               /\ har_events = <<"facade">>
        /\ \A k \in 1..Len(token_requests) :
               token_requests[k].grant_type # "authorization_code"

\* handle_authentication_result with a callback URL carrying a code, on a
\* client that has a token endpoint but no redirect URI.
C16_Witness ==
    /\ Constructed
    /\ client.authentication_redirect_uri = None
    /\ client.token_endpoint # None
    /\ HarReturned
    /\ har_args.entry = "facade"
    /\ har_args.current_url.query.code # None
    /\ har_result.kind = "ImpossibleOperationError"

\* The token-endpoint operations of the facade.
C17_TokenOperations == TokenGrants \cup {"exchange_code_for_tokens", "facade"}

\* Number of POSTs the running call has sent.
C17_Posts == Cardinality({k \in 1..Len(har_events) : har_events[k] = "token_request"})

C18_TypedOutcomes ==
    {"TokenSuccessResponse", "TokenErrorResponse", "AuthenticationFailedError",
     "ValidationError", "UnsupportedByProviderError", "ImpossibleOperationError",
     "OpenidProtocolError"}

\* C18: every call of handle_authentication_result to which the token
\* endpoint, if asked, gave an answer ends in a TokenSuccessResponse, a
\* TokenErrorResponse or one of the typed errors of the library - also for a
\* callback URL with neither code nor error, for an error value outside of
\* the enum and for a token-endpoint body of unexpected shape.
C18_OnlyTypedOutcomes ==
    (HarReturned /\ har_result.kind # "ConnectionError") =>
        har_result.kind \in C18_TypedOutcomes

(***************************************************************************)
(* Two concurrent login attempts (checked under SpecConc)                  *)
(***************************************************************************)

\* The call of attempt t has passed the state check.
C19_PassedStateCheck(t) ==
    frames[t].pc = "exchange" \/ "token_request" \in Range(frames[t].events)

\* What a call with the arguments and the token-endpoint answer of frame f
\* yields when it is the only call ever made on the client c.
RECURSIVE C19_RunAlone(_, _)
C19_RunAlone(f, c) ==
    IF f.pc \in {"returned", "idle", "started"} THEN f
    ELSE C19_RunAlone(HarFrameStep(f, f.args.state, c, f.resp), c)

C19_CallOf(f) ==
    [f EXCEPT !.pc = "facade", !.redirect = None, !.msg = NoMsg,
              !.result = NoHarResult, !.events = <<"start">>]

C19_Inv ==
    \A t \in Attempts :
        /\ C19_PassedStateCheck(t) =>
               /\ C1_UrlState(frames[t].args.current_url) = frames[t].args.state
               /\ (frames[t].args.state = AttemptState(t)) =>
                      C1_UrlState(frames[t].args.current_url) = frames[t].auth_url_state
        /\ (frames[t].pc = "returned" /\ frames[t].auth_url_state # None) =>
               LET alone == C19_RunAlone(C19_CallOf(frames[t]), client)
               IN  /\ frames[t].result = alone.result
                   /\ frames[t].events = alone.events
        /\ (frames[t].pc = "returned" /\ frames[t].result.kind = "ValidationError") =>
               C1_UrlState(frames[t].args.current_url) # frames[t].args.state

\* C19: the engine keeps no state between start_authentication and
\* handle_authentication_result.  In every interleaving of two login attempts
\* with distinct state values on one client object, a callback passes the
\* state check only when the URL carries the state the call was given (for a
\* call given its own attempt's state: the state of that attempt's
\* authentication request); the outcome of each call is the one it has when
\* it runs alone with the same arguments and the same answer of the token
\* endpoint; and no step of either attempt changes the client object.
C19_AttemptsIsolated == []C19_Inv /\ [][client' = client]_vars

\* Attempt 2 handled the callback of attempt 1 with its own state and failed
\* while the call of attempt 1 was in flight; attempt 1 passed its state
\* check all the same.
C19_Witness ==
    /\ frames[2].pc = "returned"
    /\ frames[2].args.state = AttemptState(2)
    /\ C1_UrlState(frames[2].args.current_url) = AttemptState(1)
    /\ frames[2].result.kind = "ValidationError"
    /\ frames[1].pc = "exchange"
    /\ frames[1].args.state = AttemptState(1)
    /\ "state_check" \in Range(frames[2].events)

(***************************************************************************)
(* The client cache (checked under SpecCache)                              *)
(***************************************************************************)

\* The requests that constructed a client.
C20_Constructors == {r \in Requests : discovered[r]}

\* C20: when several requests call get_client while the cache is empty,
\* more than one client may be constructed, but every caller receives a
\* usable client, all clients constructed are configured identically, and
\* once the cache holds a client every call that finds it returns that
\* client without running discovery again.
C20_RaceHarmless ==
    /\ \A r \in Requests :
           get_client_pc[r] = "returned" => local_client[r] # NoClient
    /\ \A r1, r2 \in C20_Constructors : local_client[r1] = local_client[r2]
    /\ \A r \in Requests :
           (get_client_pc[r] = "returned" /\ cache # NoClient) => local_client[r] = cache
    /\ \A r \in Requests :
           (get_client_pc[r] = "returned" /\ ~discovered[r]) =>
               \E q \in C20_Constructors : local_client[q] = local_client[r]


(***************************************************************************)
(* Properties of the message codec (checked under SpecCodec)               *)
(***************************************************************************)
CodecParsed == codec_pc = "parsed"

HasListField ==
    \E n \in DOMAIN codec_msg.fields : codec_msg.fields[n].t = "list"

\* C21: for every valid message m, decoding the form body encoded from m
\* gives m, and decoding the query of the URL encoded from m gives m.
C21_RoundTrip ==
    CodecParsed => /\ codec_parsed.form = codec_msg
                   /\ codec_parsed.url = codec_msg

\* The round trip of C21 does hold for the messages whose fields are strings
\* or None (None, the empty string and a default overridden by None
\* included), into a URL whose own parameters the class does not keep.
C21_StrRoundTrip ==
    (CodecParsed /\ ~HasListField)
        => /\ codec_parsed.form = codec_msg
           /\ (codec_base.args = <<>> \/ ~ExtraAllowed(codec_cls))
                => codec_parsed.url = codec_msg

CodecEncoded == codec_pc \in {"encoded", "parsed"}

\* the parameter names that appear in an encoded query or form body
KeysOf(wire) == {Query_parse(wire)[i].key : i \in DOMAIN Query_parse(wire)}

\* a keyword argument the caller supplied: not None, and not an empty list
Supplied(n) == codec_args[n] # NoneValue /\ codec_args[n] # ListValue(<<>>)

\* C22: the URL of start_authentication holds response_type=code, client_id,
\* scope and redirect_uri plus exactly the optional parameters that were
\* passed, and the body of the authorization-code token request holds
\* grant_type, code, redirect_uri and client_id plus exactly the PKCE
\* parameters that were passed; a parameter not passed never appears.
C22_OmitsUnsupplied ==
    /\ (CodecEncoded /\ codec_cls = "AuthenticationRequest")
            => /\ KeysOf(codec_url.query) \ {ForeignArg.key}
                    = {"response_type", "client_id", "scope", "redirect_uri"}
                      \cup {n \in {"state", "nonce", "prompt", "code_challenge",
                                   "code_challenge_method"} : Supplied(n)}
               /\ FirstValue(Query_parse(codec_url.query), "response_type") = StrOf("code")
    /\ (CodecEncoded /\ codec_cls = "TokenRequest" /\ Supplied("client_id"))
            => KeysOf(codec_form)
                    = {"grant_type", "code", "redirect_uri", "client_id"}
                      \cup {n \in {"code_verifier", "code_challenge",
                                   "code_challenge_method"} : Supplied(n)}
    /\ (CodecEncoded /\ codec_cls \in {"AuthenticationRequest", "TokenRequest"})
            => KeysOf(codec_form) = {n \in DOMAIN codec_args : Supplied(n)}

\* The parameters that are fields of the message classes (state, nonce,
\* prompt) do appear exactly when they were passed.
C22_DeclaredOmitted ==
    (CodecEncoded /\ codec_cls = "AuthenticationRequest")
        => \A n \in {"state", "nonce", "prompt"} :
                n \in KeysOf(codec_url.query) <=> Supplied(n)

FragmentDecoded == parse_x_www_form_urlencoded(codec_cls, AutoUrl.fragment)

QueryDecoded == parse_x_www_form_urlencoded(codec_cls, AutoUrl.query)

\* C23: parse_url with location "auto" returns the message decoded from the
\* fragment whenever the fragment decodes to a valid message, otherwise the
\* message decoded from the query; it fails only if both fail; and a
\* message encoded in either location alone is recovered unchanged.
C23_AutoDecoding ==
    CodecParsed =>
        /\ FragmentDecoded.ok => codec_parsed.auto = FragmentDecoded
        /\ ~FragmentDecoded.ok => codec_parsed.auto = QueryDecoded
        /\ ~codec_parsed.auto.ok <=> (~FragmentDecoded.ok /\ ~QueryDecoded.ok)
        /\ codec_other = <<>> => codec_parsed.auto = codec_msg

\* What does hold: the fragment is tried first and the query is the
\* fallback; a message without list values that is alone in the fragment is
\* recovered, and one that is alone in the query is recovered if the empty
\* fragment is no valid message of the class.
C23_FragmentFirst ==
    CodecParsed =>
        /\ FragmentDecoded.ok => codec_parsed.auto = FragmentDecoded
        /\ ~FragmentDecoded.ok => codec_parsed.auto = QueryDecoded
        /\ ~codec_parsed.auto.ok <=> (~FragmentDecoded.ok /\ ~QueryDecoded.ok)
        /\ (codec_other = <<>> /\ ~HasListField
                /\ (codec_where = "fragment" \/ ~parse_obj(codec_cls, <<>>).ok))
            => codec_parsed.auto = codec_msg

TokenRequestConstructed == codec_pc # "start" /\ codec_cls = "TokenRequest"

HasArg(n) == codec_args[n] # NoneValue

\* C24: constructing a TokenRequest fails whenever a field required for its
\* grant_type is missing, and succeeds otherwise: authorization_code
\* requires code and redirect_uri, refresh_token requires refresh_token,
\* password requires username, password and scope, client_credentials
\* requires scope.
C24_GrantTable ==
    TokenRequestConstructed =>
        (codec_msg.ok <=>
            CASE codec_args["grant_type"] = GrantTypeValue("authorization_code") ->
                    HasArg("code") /\ HasArg("redirect_uri")
              [] codec_args["grant_type"] = GrantTypeValue("refresh_token") ->
                    HasArg("refresh_token")
              [] codec_args["grant_type"] = GrantTypeValue("password") ->
                    HasArg("username") /\ HasArg("password") /\ HasArg("scope")
              [] codec_args["grant_type"] = GrantTypeValue("client_credentials") ->
                    HasArg("scope"))

\* C24 as the validator implements it: the same table, except that a
\* client_credentials request has no required field.
C24_GrantTableOfValidator ==
    TokenRequestConstructed =>
        (codec_msg.ok <=>
            CASE codec_args["grant_type"] = GrantTypeValue("authorization_code") ->
                    HasArg("code") /\ HasArg("redirect_uri")
              [] codec_args["grant_type"] = GrantTypeValue("refresh_token") ->
                    HasArg("refresh_token")
              [] codec_args["grant_type"] = GrantTypeValue("password") ->
                    HasArg("username") /\ HasArg("password") /\ HasArg("scope")
              [] codec_args["grant_type"] = GrantTypeValue("client_credentials") ->
                    TRUE)

C24_Witness ==
    /\ codec_pc = "constructed"
    /\ codec_cls = "TokenRequest"
    /\ codec_args["grant_type"] = GrantTypeValue("client_credentials")
    /\ ~HasArg("scope")
    /\ codec_msg.ok
    /\ codec_msg.fields["scope"] = NoneValue


(***************************************************************************)
(* Properties of BackChannelLogoutToken.validate_extern (checked under     *)
(* SpecLogoutToken)                                                        *)
(***************************************************************************)
LogoutTokenDone == lt_pc = "done"

NoCallbackRaises ==
    /\ lt_expect.validate_unique_jti # "raises"
    /\ lt_expect.validate_iss_has_sessions # "raises"
    /\ lt_expect.validate_sub_has_sessions # "raises"
    /\ lt_expect.validate_sid_exists # "raises"

\* C25: validate_extern rejects a logout token that has neither sub nor sid
\* and accepts one that has either or both; it also rejects a token whose
\* iss differs from the issuer, whose aud is not the client_id, or whose iat
\* is below min_iat.
C25_LogoutTokenChecks ==
    LogoutTokenDone =>
        /\ (lt_token.sub = None /\ lt_token.sid = None) => lt_result # OK
        /\ lt_token.iss # lt_expect.issuer => lt_result # OK
        /\ lt_token.aud # lt_expect.client_id => lt_result # OK
        /\ lt_token.iat < lt_expect.min_iat => lt_result # OK
        /\ (/\ lt_token.iss = lt_expect.issuer
            /\ lt_token.aud = lt_expect.client_id
            /\ lt_token.iat >= lt_expect.min_iat
            /\ (lt_token.sub # None \/ lt_token.sid # None)
            /\ NoCallbackRaises) => lt_result = OK

C25_Witness ==
    /\ LogoutTokenDone
    /\ lt_token.sub = None /\ lt_token.sid = None
    /\ lt_token.iss = lt_expect.issuer
    /\ lt_token.aud = lt_expect.client_id
    /\ lt_token.iat >= lt_expect.min_iat
    /\ lt_result = MsgLogoutSubSid

C25_WitnessAccepted ==
    /\ LogoutTokenDone
    /\ lt_token.sub = None /\ lt_token.sid # None
    /\ lt_result = OK


(***************************************************************************)
(* Properties of the facade's redirect URI (checked under SpecRedirect)    *)
(***************************************************************************)
\* C26: the redirect_uri that handle_authentication_result sends in the
\* token request is the redirect_uri that start_authentication sent in the
\* authentication request whenever both calls are given the same
\* additional_redirect_args (none included), and the arguments of one call
\* do not show in the redirect URI of a later call.
C26_SameRedirectUri ==
    /\ \A i, j \in DOMAIN redirect_log :
            (/\ redirect_log[i].op = "start_authentication"
             /\ redirect_log[j].op = "handle_authentication_result"
             /\ redirect_log[i].args = redirect_log[j].args)
                => /\ redirect_log[i].error = "none"
                   /\ redirect_log[j].redirect_uri = redirect_log[i].redirect_uri
    /\ \A j \in DOMAIN redirect_log :
            redirect_log[j].error = "none"
                => redirect_log[j].redirect_uri
                        = RedirectUriWith(PlainRedirectUri, redirect_log[j].args)

\* What does hold: without additional arguments the two redirect URIs are
\* the same, and the arguments of a call never show in a later call.
C26_NoLeak ==
    /\ \A i, j \in DOMAIN redirect_log :
            (/\ redirect_log[i].op = "start_authentication"
             /\ redirect_log[j].op = "handle_authentication_result"
             /\ redirect_log[i].args = None /\ redirect_log[j].args = None)
                => redirect_log[j].redirect_uri = redirect_log[i].redirect_uri
    /\ \A j \in DOMAIN redirect_log :
            redirect_log[j].op = "handle_authentication_result"
                => redirect_log[j].redirect_uri
                        = RedirectUriWith(PlainRedirectUri, redirect_log[j].args)
    /\ authentication_redirect_uri = PlainRedirectUri


(***************************************************************************)
(* Properties of discovery (checked under SpecDiscovery)                   *)
(***************************************************************************)
DiscoveryDone == disc_pc = "done"

DiscoveryAnswerGood ==
    /\ disc_response.reached
    /\ disc_response.content_type # None
    /\ is_application_json(disc_response.content_type)
    /\ disc_response.body.json
    /\ disc_response.body.valid
    /\ disc_response.body.issuer = disc_issuer

\* C27: discover_configuration_from_issuer returns a ProviderMetadata only
\* when the response is application/json, its body validates and its issuer
\* is the requested one; every other outcome (no or another content type,
\* invalid JSON, invalid document, issuer mismatch, unreachable provider)
\* is raised as OpenidProtocolError.
C27_DiscoveryOutcomes ==
    DiscoveryDone =>
        IF DiscoveryAnswerGood
        THEN disc_result = [kind |-> "ProviderMetadata", issuer |-> disc_issuer]
        ELSE disc_result.kind = "OpenidProtocolError"

\* What does hold: a ProviderMetadata is returned exactly for the good
\* answers, and a response that has a content type is never answered with
\* another error than OpenidProtocolError.
C27_ReturnsOnlyValid ==
    DiscoveryDone =>
        /\ disc_result.kind = "ProviderMetadata" <=> DiscoveryAnswerGood
        /\ (disc_response.reached /\ disc_response.content_type # None
                /\ ~DiscoveryAnswerGood)
            => disc_result.kind = "OpenidProtocolError"


(***************************************************************************)
(* Properties of PKCE (checked under SpecPkce)                             *)
(***************************************************************************)
PkceGenerated == pkce_pc \in {"generated", "recomputed"}

PkceVerifier ==
    IF pkce_op = "generate_code_verifier" THEN pkce_result ELSE pkce_result.code_verifier

\* C28: generate_code_verifier(length) and generate_pkce_pair(length) raise
\* ValueError if and only if length is outside [43, 128]; for a length
\* inside, the verifier returned has exactly length characters.
C28_LengthChecked ==
    PkceGenerated =>
        /\ pkce_result = ValueError <=> (pkce_length < 43 \/ pkce_length > 128)
        /\ pkce_result # ValueError => Len(PkceVerifier) = pkce_length

C28_Witness ==
    /\ PkceGenerated
    /\ pkce_length = 43
    /\ pkce_result # ValueError
    /\ Len(PkceVerifier) = 43

C28_WitnessRaised ==
    /\ PkceGenerated
    /\ pkce_length = 129
    /\ pkce_result = ValueError

\* C29: get_code_challenge is a function of its argument alone, and the
\* challenge of every pair that generate_pkce_pair returns is
\* get_code_challenge of the pair's verifier, also when it is computed
\* again later.
C29_PairReproducible ==
    /\ (PkceGenerated /\ pkce_op = "generate_pkce_pair" /\ pkce_result # ValueError)
            => pkce_result.code_challenge = get_code_challenge(pkce_result.code_verifier)
    /\ (pkce_pc = "recomputed" /\ pkce_op = "generate_pkce_pair")
            => pkce_again = pkce_result.code_challenge
    /\ pkce_pc = "recomputed" => pkce_again = get_code_challenge(PkceVerifier)

C29_Witness ==
    /\ pkce_pc = "recomputed"
    /\ pkce_op = "generate_pkce_pair"
    /\ pkce_again = pkce_result.code_challenge
    /\ pkce_again # ValueError

(***************************************************************************)
(* Properties of the resource server (checked under SpecAccessToken)       *)
(***************************************************************************)
DecoratorDone == rs_op = "access_token_required" /\ rs_pc = "done"

\* the scopes named by a scope string
ScopeSet(s) == {SplitOn(s, " ")[i] : i \in 1..Len(SplitOn(s, " "))} \ {<<>>}

BearerHeader ==
    /\ rs_request.authorization # NoneStr
    /\ startswith_Bearer(rs_request.authorization)

IntrospectedActive ==
        /\ rs_introspect.kind = "TokenIntrospectionSuccessResponse"
    /\ rs_introspect.active

IntrospectedInactive ==
        /\ rs_introspect.kind = "TokenIntrospectionSuccessResponse"
    /\ ~rs_introspect.active

RequiredScopeSet == ScopeSet(required_scopes_or_default(rs_required))

\* C31: the view wrapped by access_token_required is executed only for a
\* request with a Bearer Authorization header whose token is introspected as
\* active with a scope that contains every required scope; a missing header,
\* an inactive token and an insufficient scope are answered with 401 and
\* WWW-Authenticate: Bearer, and the view is not executed.
C31_AccessTokenRequired ==
    DecoratorDone =>
        /\ rs_result.view_executed =>
              /\ BearerHeader
              /\ IntrospectedActive
              /\ rs_introspect.scope # NoneStr
              /\ RequiredScopeSet \subseteq ScopeSet(rs_introspect.scope)
        /\ (\/ ~BearerHeader
            \/ IntrospectedInactive
            \/ (/\ IntrospectedActive
                /\ rs_introspect.scope # NoneStr
                /\ ~(RequiredScopeSet \subseteq ScopeSet(rs_introspect.scope))))
           => /\ rs_result.status = 401
              /\ rs_result.www_authenticate = "Bearer"
              /\ ~rs_result.view_executed

\* the view was executed for a token that has both required scopes
C31_Witness ==
    /\ DecoratorDone
    /\ rs_result.view_executed
    /\ rs_required = <<"a", " ", "b">>

\* a token with an insufficient scope was answered with 401
C31_WitnessRejected ==
    /\ DecoratorDone
    /\ IntrospectedActive
    /\ rs_introspect.scope = <<"b">>
    /\ rs_result.status = 401

MapperDone == rs_op = "handle_federated_access_token" /\ rs_pc = "done"

\* the raw token is a valid JWT access token that names its user
ValidJwt == rs_jwt.kind = "JwtAccessToken" /\ rs_jwt.sub # None

\* the raw token is opaque and was introspected as active, with its user
ValidOpaque ==
    /\ rs_jwt.kind = "not_a_jwt"
    /\ IntrospectedActive
    /\ rs_introspect.sub # None

\* the scope of the data the token was accepted with
AcceptedScope == IF rs_result.path = "jwt" THEN rs_jwt.scope ELSE rs_introspect.scope

\* C35: handle_federated_access_token with required_scopes = "" accepts every
\* otherwise valid token whatever its scopes, on the JWT path and on the
\* introspection path; with a non-empty required_scopes a token is accepted
\* only if its scope contains every required scope.
C35_EmptyRequiresNothing ==
    MapperDone =>
        /\ (rs_required = <<>> /\ (ValidJwt \/ ValidOpaque)) => rs_result.accepted
        /\ (rs_required # <<>> /\ rs_result.accepted) =>
              /\ AcceptedScope # NoneStr
              /\ RequiredScopeSet \subseteq ScopeSet(AcceptedScope)

\* what the code does guarantee: the JWT path accepts every valid JWT when ""
\* is required, and no token is accepted without the scopes that are required
C35_JwtPathOnly ==
    MapperDone =>
        /\ (rs_required = <<>> /\ ValidJwt) => rs_result.accepted
        /\ rs_result.accepted =>
              \/ (rs_required = <<>> /\ rs_result.path = "jwt")
              \/ (/\ AcceptedScope # NoneStr
                  /\ RequiredScopeSet \subseteq ScopeSet(AcceptedScope))

\* an opaque, active token with scope "a" was rejected although "" was required
C35_RejectedOpaque ==
    /\ MapperDone
    /\ rs_required = <<>>
    /\ ValidOpaque
    /\ rs_introspect.scope = <<"a">>
    /\ ~rs_result.accepted

(***************************************************************************)
(* Properties of the login callback as a whole (checked under SpecView)    *)
(***************************************************************************)
\* the step moves LoginCallbackView.get to the position pc
ViewEnters(pc) == view_pc' = pc /\ view_pc # pc

C32_Order ==
    /\ ViewEnters("check_login_timeout") =>
          /\ view_pc = "check_auth_state"
          /\ session.openid_auth_state # None
    /\ ViewEnters("exchange_code_for_token") =>
          /\ view_pc = "check_login_timeout"
          /\ session.openid_auth_start_time # NoneInt
          /\ now - session.openid_auth_start_time <= OPENID_LOGIN_TIMEOUT
    /\ ViewEnters("await_token_response") => view_pc = "exchange_code_for_token"
    /\ ViewEnters("extract_id") =>
          /\ view_pc = "await_token_response"
          /\ har_result.kind = "TokenSuccessResponse"
          /\ har_args.state = session.openid_auth_state
          /\ C1_UrlState(view_url) = session.openid_auth_state
    /\ ViewEnters("perform_login") =>
          /\ view_pc = "extract_id"
          /\ view_token.kind = "TokenSuccessResponse"
          /\ view_token.sig_ok
          /\ validate_extern(view_token.id_token, ViewExpect(session), now).error = OK
    \* the stored values stay as they are while the request is handled
    /\ session' # session => view_pc \in {"idle", "perform_login"}
    \* a user is logged in, and a session record written, by perform_login only
    /\ (session'.user # session.user /\ session'.user # None) => view_pc = "perform_login"
    /\ openid_sessions' # openid_sessions => view_pc = "perform_login"
    \* a request that ends anywhere else leaves both as they were
    /\ (view_pc \notin {"idle", "perform_login"} /\ view_pc' = "idle") =>
          /\ session' = session
          /\ openid_sessions' = openid_sessions
          /\ view_response' # "302 redirect"

\* C32: LoginCallbackView reaches perform_login only through, in this order,
\* check_auth_state with a stored state, check_login_timeout with a login
\* started at most OPENID_LOGIN_TIMEOUT ago, a code exchange that returned a
\* TokenSuccessResponse for a callback carrying the stored state, and an
\* ID-Token that validate_extern accepted for the stored nonce and start
\* time; a request that fails at any step logs nobody in and leaves the
\* OpenidSession table as it was.
C32_LoginOnlyAfterAllChecks == [][C32_Order]_vars

\* a login was performed and its session record written
C32_Witness ==
    /\ view_pc = "idle"
    /\ view_response = "302 redirect"
    /\ session.user = "sub"
    /\ session.openid_session = 1
    /\ Len(openid_sessions) = 1

\* a callback with the stored state failed at the code exchange
C32_WitnessFailed ==
    /\ view_pc = "idle"
    /\ view_response = "401 token error"
    /\ session.openid_auth_state # None
    /\ session.user = None
    /\ openid_sessions = <<>>

(***************************************************************************)
(* Properties of the middleware (checked under SpecMiddleware)             *)
(***************************************************************************)
MiddlewareDone == mw_pc = "done"

RefreshSucceeded ==
    /\ mw_exchanges = <<"TokenSuccessResponse">>
    /\ mw_row.tokens = "new"

\* a session with an OpenID session whose access token is expired
ExpiredSession == mw_session /\ mw_row.exists /\ mw_row.is_access_token_expired

C33_Checked ==
    /\ Len(mw_exchanges) <= 1
    /\ (mw_pc \in {"exchange", "done"} /\ ExpiredSession /\ mw_row.is_refresh_token_expired)
          => mw_exchanges = <<>>
    /\ (MiddlewareDone /\ mw_session /\ mw_result = "get_response") =>
          \/ (mw_row.exists /\ mw_exchanges = <<>> /\ ~mw_row.is_access_token_expired)
          \/ RefreshSucceeded
    /\ (/\ MiddlewareDone
        /\ ExpiredSession
        /\ \/ mw_row.is_refresh_token_expired
           \/ mw_exchanges = <<"TokenErrorResponse">>)
          => mw_result = "redirect"

C33_WitnessLoginUrl ==
    /\ MiddlewareDone
    /\ mw_request.is_login_url
    /\ ExpiredSession
    /\ mw_row.is_refresh_token_expired
    /\ mw_result = "get_response"

(***************************************************************************)
(* Properties of the redirect URI of get_client (checked under SpecCache)  *)
(***************************************************************************)
GetClientReturned(r) == get_client_pc[r] = "returned"

\* C34: the redirect URI of the client get_client(request) returns is built
\* from OPENID_BASE_URI when that is set and otherwise from the scheme and
\* host of the request of that very call, also when the client was cached by
\* an earlier call whose request had another host.
C34_RedirectUriOfThisRequest ==
    \A r \in Requests :
        (GetClientReturned(r) /\ settings.OPENID_REDIRECT_URI # None) =>
            local_client[r].authentication_redirect_uri
                = RedirectUriFor(settings, own_base_uri[r])

\* what the code does guarantee: the redirect URI comes from OPENID_BASE_URI
\* when that is set, and otherwise from the request of a call that
\* constructed a client, which need not be the call that returns it
C34_RedirectUriOfConstructor ==
    \A r \in Requests :
        (GetClientReturned(r) /\ settings.OPENID_REDIRECT_URI # None) =>
            IF settings.OPENID_BASE_URI # None
            THEN local_client[r].authentication_redirect_uri
                     = RedirectUriOf(settings.OPENID_BASE_URI)
            ELSE \E q \in C20_Constructors :
                     local_client[r].authentication_redirect_uri
                         = RedirectUriOf(own_base_uri[q])

\* a call made for one host got the cached client of the other host, with
\* nothing else running
C34_CachedForOtherHost ==
    \E r, q \in Requests :
        /\ GetClientReturned(r) /\ GetClientReturned(q)
        /\ \A o \in Requests : get_client_pc[o] \in {"idle", "returned"}
        /\ discovered[q] /\ ~discovered[r]
        /\ own_base_uri[r] # own_base_uri[q]
        /\ local_client[r].authentication_redirect_uri = RedirectUriOf(own_base_uri[q])

(***************************************************************************)
(* Properties of update_session (checked under SpecUpdateSession)          *)
(***************************************************************************)
\* no sid has two rows
OneRowPerSid ==
    \A i, j \in 1..Len(us_table) :
        (us_table[i].sid = us_table[j].sid /\ us_table[i].sid # "") => i = j

\* a call for a sid without a row appended the row of the call
CreatedWhenNew ==
    (us_calls > 0 /\ ~us_last.existed) =>
        /\ Len(us_table) = us_last.rows + 1
        /\ us_table[Len(us_table)] = us_last.columns

\* C36: update_session updates the stored session whose sid is the ID-Token's
\* sid, so that reading it afterwards gives the new access token, refresh
\* token, scope and expiries; otherwise it creates a new session; no sid
\* ever has two sessions.
C36_UpdatesStoredSession ==
    /\ (us_calls > 0 /\ us_last.existed) =>
          /\ Len(us_table) = us_last.rows
          /\ \E i \in 1..Len(us_table) : us_table[i] = us_last.columns
    /\ CreatedWhenNew
    /\ OneRowPerSid

\* what the code does guarantee: a new session is created for a new sid, and
\* no sid has two sessions; the row of an existing sid stays as it was stored
C36_CreatesOnly ==
    /\ (us_calls > 0 /\ us_last.existed) => Len(us_table) = us_last.rows
    /\ CreatedWhenNew
    /\ OneRowPerSid

\* the second call for sid s1 brought a new access token, the row kept the old
C36_StaleRow ==
    /\ us_calls = 2
    /\ us_last.existed
    /\ us_last.sid = "s1"
    /\ us_last.columns.access_token = "at2"
    /\ us_table = <<[us_last.columns EXCEPT !.access_token = "at1"]>>

(***************************************************************************)
(* Properties of the hooks of BackChannelLogoutToken.validate_extern       *)
(* (checked under SpecLogoutToken)                                         *)
(***************************************************************************)
BuiltinMessages == {MsgLogoutIssuer, MsgLogoutAud, MsgLogoutIat, MsgLogoutSubSid}

\* the position of a hook in the order jti, iss, sub, sid
HookPos(h) == CHOOSE i \in 1..Len(HookOrder) : HookOrder[i] = h

HookInvoked(h) == \E i \in 1..Len(lt_hooks) : lt_hooks[i] = h

\* C37: the hooks of validate_extern run only after the issuer, audience, iat
\* and sub/sid-presence checks have passed, in the order jti uniqueness,
\* iss, sub, sid; a token rejected by a built-in check reaches no hook, a
\* hook that raises is the last one run, and the sub and sid hooks are
\* skipped when the token lacks the claim.
C37_HooksAfterChecksInOrder ==
    LogoutTokenDone =>
        /\ lt_hooks # <<>> =>
              /\ lt_token.iss = lt_expect.issuer
              /\ lt_token.aud = lt_expect.client_id
              /\ lt_token.iat >= lt_expect.min_iat
              /\ (lt_token.sub # None \/ lt_token.sid # None)
        /\ lt_result \in BuiltinMessages => lt_hooks = <<>>
        /\ \A i, j \in 1..Len(lt_hooks) :
              i < j => HookPos(lt_hooks[i]) < HookPos(lt_hooks[j])
        /\ \A i \in 1..Len(lt_hooks) :
              /\ lt_expect[lt_hooks[i]] # None
              /\ lt_expect[lt_hooks[i]] = "raises" => i = Len(lt_hooks)
        /\ HookInvoked("validate_sub_has_sessions") => lt_token.sub # None
        /\ HookInvoked("validate_sid_exists") => lt_token.sid # None
        /\ (lt_result \notin BuiltinMessages /\ lt_expect.validate_unique_jti # None)
              => lt_hooks[1] = "validate_unique_jti"
        /\ lt_result = OK =>
              \A i \in 1..Len(HookOrder) :
                  HookApplies(HookOrder[i], lt_token, lt_expect) => HookInvoked(HookOrder[i])

\* the result of the call is that of the hooks it ran
C37_ResultOfHooks ==
    LogoutTokenDone =>
        /\ (lt_result \notin BuiltinMessages /\ lt_result # OK) =>
              /\ lt_hooks # <<>>
              /\ lt_expect[lt_hooks[Len(lt_hooks)]] = "raises"
        /\ lt_result = OK =>
              \A i \in 1..Len(lt_hooks) : lt_expect[lt_hooks[i]] = "returns"

\* all four hooks ran, in order
C37_Witness ==
    /\ LogoutTokenDone
    /\ lt_hooks = HookOrder
    /\ lt_result = OK

\* a token without sub: the iss hook raised, the sid hook did not run
C37_WitnessStopped ==
    /\ LogoutTokenDone
    /\ lt_token.sub = None
    /\ lt_expect.validate_sub_has_sessions = "returns"
    /\ lt_expect.validate_sid_exists = "returns"
    /\ lt_hooks = <<"validate_unique_jti", "validate_iss_has_sessions">>
    /\ lt_result = "validate_iss_has_sessions raised"

\* a token rejected for its iat although a jti hook was given
C37_WitnessRejected ==
    /\ LogoutTokenDone
    /\ lt_result = MsgLogoutIat
    /\ lt_expect.validate_unique_jti = "returns"
    /\ lt_hooks = <<>>

(***************************************************************************)
(* Properties of PKCE in the flow (checked under SpecPkceFlow)             *)
(***************************************************************************)
\* the value occurs among the parameters of the message
Appears(value, msg) == \E k \in DOMAIN msg : msg[k] = value

UsesPkce(a) == pf_attempt[a].code_verifier # NoneParam

LoginCompletes == view_pc = "perform_login" /\ view_pc' = "idle"

C38_Cleanup ==
    LoginCompletes =>
        /\ session'.openid_auth_state = None
        /\ session'.openid_auth_nonce = None
        /\ session'.openid_auth_start_time = NoneInt
        /\ session'.user # None

C38_Replay ==
    (/\ view_pc = "check_auth_state"
     /\ session.user # None
     /\ view_pc' # view_pc)
        => /\ view_pc' = "idle"
           /\ view_response' = "401 Invalid state"
           /\ token_requests' = token_requests
           /\ calls' = calls
           /\ har_pc' = har_pc
           /\ session' = session
           /\ openid_sessions' = openid_sessions

\* a session with a logged-in user holds no stored state
C38_LoggedInHasNoState == session.user # None => session.openid_auth_state = None

\* C38: a successful login removes the stored state, nonce and start time
\* from the session, so a further callback request in that session, with
\* the same URL or any other, is answered with 401 "Invalid state" without
\* a code exchange and without a change of the logged-in user.
C38_NoReplayAfterLogin == []C38_LoggedInHasNoState /\ [][C38_Cleanup /\ C38_Replay]_vars

\* the callback URL of the login was requested again and rejected
C38_Witness ==
    /\ view_pc = "idle"
    /\ view_response = "401 Invalid state"
    /\ session.user = "sub"
    /\ Len(openid_sessions) = 1
    /\ Len(token_requests) = 1
    /\ view_url.query.code = token_requests[1].code
    /\ view_url.query.state = "42"
    /\ view_checked = NoChecked

\* the step is a whole InitLoginView request
InitLoginViewStep == view_pc = "idle" /\ view_pc' = "idle" /\ session' # session

C39_InitReplaces ==
    InitLoginViewStep =>
        /\ session'.user = None
        /\ session'.openid_session = NoneInt
        /\ session'.openid_auth_state \in StateVals
        /\ session'.openid_auth_nonce \in NonceVals
        /\ session'.openid_auth_start_time = now

\* the stored state is written by InitLoginView and removed by a login only
C39_StateStable ==
    session'.openid_auth_state # session.openid_auth_state =>
        InitLoginViewStep \/ LoginCompletes

\* a login completes only for a callback carrying the stored state, which is
\* the state of the latest InitLoginView request
C39_LoginForStoredState ==
    LoginCompletes =>
        /\ session.openid_auth_state # None
        /\ C1_UrlState(view_url) = session.openid_auth_state

\* a callback carrying another state than the stored one ends without login
C39_OtherStateRejected ==
    (/\ view_pc # "idle"
     /\ view_pc' = "idle"
     /\ C1_UrlState(view_url) # session.openid_auth_state)
        => /\ view_response' # "302 redirect"
           /\ session' = session
           /\ openid_sessions' = openid_sessions

\* C39: every InitLoginView request logs the user out and stores a new
\* state, nonce and start time in place of those of an earlier unfinished
\* attempt; whatever the order of the requests of two attempts in one
\* session, a callback carrying the state of the replaced attempt, which
\* is no longer the stored one, never results in a login.
C39_ReplacedAttemptCannotLogin ==
    [][C39_InitReplaces /\ C39_StateStable /\ C39_LoginForStoredState
          /\ C39_OtherStateRejected]_vars

\* a second attempt was started at time 1 with state 42; the callback with
\* state 0 was refused before any token request
C39_Witness ==
    /\ view_pc = "idle"
    /\ session.openid_auth_state = "42"
    /\ session.openid_auth_start_time = 1
    /\ session.user = None
    /\ view_url.query.code # None
    /\ view_url.query.state = "0"
    /\ view_response = "500 unhandled exception"
    /\ token_requests = <<>>
    /\ openid_sessions = <<>>

====
